---- MODULE Spec2Model ----
(***************************************************************************)
(* Block execution pipeline of the contract runtime                        *)
(* (node/src/components/contract_runtime/operations.rs):                    *)
(* execute_finalized_block, commit_execution_effects, commit_step and the   *)
(* era purge calculator calculate_purge_eras.                               *)
(*                                                                         *)
(* Option<T> is modelled as a sequence of length at most one:               *)
(* None = <<>>, Some(x) = <<x>>.  u64 is modelled at width U64Bits.         *)
(***************************************************************************)
EXTENDS Integers, Sequences, FiniteSets, TLC

\* ---------------------------------------------------------------- bounds

\* Width in bits of the modelled u64 (heights, era ids, batch sizes).
U64Bits == 3

U64_MAX == 2^U64Bits - 1

U64 == 0..U64_MAX

None == <<>>

Some(x) == <<x>>

Min(a, b) == IF a <= b THEN a ELSE b

\* ------------------------------------------------- u64 checked arithmetic

\* Faulty variant: the product wraps around at the integer width.
checked_mul_wrapping(a, b) == Some((a * b) % (U64_MAX + 1))

checked_mul(a, b) == IF a * b > U64_MAX THEN None ELSE Some(a * b)

checked_add(a, b) == IF a + b > U64_MAX THEN None ELSE Some(a + b)

checked_sub(a, b) == IF a < b THEN None ELSE Some(a - b)

\* Key::EraInfo(EraId::new(e))
EraInfo(e) == <<"EraInfo", e>>

\* ------------------------------------------------ era purge calculator

\* Faulty variant: the end of the range is not clamped to n.
generate_range_by_index_unclamped(n, m, index) ==
    LET start == checked_mul(index, m) IN
    IF start = None THEN None
    ELSE LET end == checked_add(start[1], m) IN
         IF end = None THEN None
         ELSE Some([start |-> start[1], end |-> end[1]])

\* fn generate_range_by_index(n, m, index) -> Option<Range<u64>>
generate_range_by_index(n, m, index) ==
    LET start == checked_mul(index, m) IN
    IF start = None THEN None
    ELSE LET end == checked_add(start[1], m) IN
         IF end = None THEN None
         ELSE Some([start |-> start[1], end |-> Min(end[1], n)])

\* Range::is_empty
range_is_empty(r) == r.start >= r.end

\* Faulty variant: the range is taken with its end, start..=end.
range_to_keys_inclusive(r) ==
    IF range_is_empty(r) THEN <<>>
    ELSE [i \in 1..(r.end - r.start + 1) |-> EraInfo(r.start + i - 1)]

\* range.map(EraId::new).map(Key::EraInfo).collect::<Vec<Key>>()
range_to_keys(r) ==
    IF range_is_empty(r) THEN <<>>
    ELSE [i \in 1..(r.end - r.start) |-> EraInfo(r.start + i - 1)]

\* Faulty variant: an empty range is returned as Some(vec![]).
calculate_purge_eras_keeps_empty(activation_era_id, activation_height, current_height, batch_size) ==
    IF batch_size = 0 THEN None
    ELSE LET nth_chunk == checked_sub(current_height, activation_height) IN
         IF nth_chunk = None THEN None
         ELSE LET range == generate_range_by_index(activation_era_id,
                                                   batch_size, nth_chunk[1]) IN
              IF range = None THEN None
              ELSE Some(range_to_keys(range[1]))

\* Faulty variant: the height difference wraps instead of being checked.
calculate_purge_eras_wrapping_sub(activation_era_id, activation_height, current_height, batch_size) ==
    IF batch_size = 0 THEN None
    ELSE LET nth_chunk == (current_height - activation_height) % (U64_MAX + 1) IN
         LET range == generate_range_by_index(activation_era_id,
                                              batch_size, nth_chunk) IN
         IF range = None THEN None
         ELSE IF range_is_empty(range[1]) THEN None
         ELSE Some(range_to_keys(range[1]))

\* fn calculate_purge_eras(activation_era_id, activation_height,
\*                         current_height, batch_size) -> Option<Vec<Key>>
calculate_purge_eras(activation_era_id, activation_height, current_height, batch_size) ==
    IF batch_size = 0 THEN None
    ELSE LET nth_chunk == checked_sub(current_height, activation_height) IN
         IF nth_chunk = None THEN None
         ELSE LET range == generate_range_by_index(activation_era_id,
                                                   batch_size, nth_chunk[1]) IN
              IF range = None THEN None
              ELSE IF range_is_empty(range[1]) THEN None
              ELSE Some(range_to_keys(range[1]))

\* ------------------------------------------------- pipeline input bounds

\* Largest block height / activation block height drawn for a call.
MaxHeight == 2

\* Largest activation era id drawn for a call.
MaxEra == 2

\* Largest purge batch size drawn for a call.
MaxBatch == 2

\* Longest list of deploys, and of transfers, in a block.
MaxDeploys == 2

MaxTransfers == 1

\* Most execution results the executor returns for one execute request.
MaxResults == 2

\* Longest equivocator list and inactive-validator list of an era report.
MaxReportLen == 1

Validators == {"alice", "bob"}

\* What a transaction does when executed: "add" succeeds and adds 1 to the
\* counter key; "fail" is a Failure result whose journal adds 2 (the payment).
DeployKinds == {"add", "fail"}

\* All sequences over S of length at most n.
SeqsUpTo(S, n) == UNION {[1..k -> S] : k \in 0..n}

\* The sequences of SeqsUpTo(S, n) that list no element twice.
ListsUpTo(S, n) == {s \in SeqsUpTo(S, n) : \A i, j \in DOMAIN s : s[i] = s[j] => i = j}

\* Option<T> over the set S.
OptionOf(S) == {None} \cup {Some(x) : x \in S}

\* The elements of a sequence.
Range(s) == {s[i] : i \in DOMAIN s}

\* --------------------------------------------------------- global state
\* A state root is identified with the content it digests: the value under
\* the counter key, the set of eras with an EraInfo record, and the set of
\* validators whose bid is inactive.

RootOf(val, eras, evicted) == [val |-> val, eras |-> eras, evicted |-> evicted]

\* AdditiveMap<Key, Transform> of one transaction: AddUInt64(n) on the counter.
AddTransform(n) == [add |-> n]

\* The scratch state: the values cached by commits that have not been written
\* to the durable store.
EmptyScratch == [val |-> None, evicted |-> None]

\* The state read through the scratch state at a root: cached values first.
ScratchView(scratch, root) ==
    [val |-> IF scratch.val = None THEN root.val ELSE scratch.val[1],
     eras |-> root.eras,
     evicted |-> IF scratch.evicted = None THEN root.evicted ELSE scratch.evicted[1]]

\* EngineState<ScratchGlobalState>::apply_effect: the cached value after the
\* transform, and the root the commit answers with.
ScratchApplyEffect(scratch, root, effects) ==
    LET view == ScratchView(scratch, root) IN
    [scratch |-> [scratch EXCEPT !.val = Some(view.val + effects.add)],
     root |-> [root EXCEPT !.val = view.val + effects.add]]

\* EngineState<ScratchGlobalState>::commit_step: the evicted validators' bids
\* become inactive.
ScratchCommitStep(scratch, step_request) ==
    LET view == ScratchView(scratch, step_request.pre_state_hash)
        evicted == view.evicted \cup Range(step_request.evict_items)
    IN [scratch |-> [scratch EXCEPT !.evicted = Some(evicted)],
        root |-> [step_request.pre_state_hash EXCEPT !.evicted = evicted]]

\* EngineState::write_scratch_to_db: the root of the cached values written
\* over the trie at state_root_hash.
WriteScratchToDb(state_root_hash, scratch) == ScratchView(scratch, state_root_hash)

\* The executor's one result for a deploy executed at the state `view`.
ExecutionResultOf(kind, view) ==
    [result |-> IF kind = "add" THEN "Success" ELSE "Failure",
     execution_journal |-> AddTransform(IF kind = "add" THEN 1 ELSE 2),
     observed |-> view.val]

\* EngineState::commit_purge on the durable store.
PurgeResultOf(durable, state_root_hash, keys_to_purge) ==
    IF state_root_hash \notin durable THEN [tag |-> "RootNotFound", post_state_hash |-> state_root_hash]
    ELSE IF \E k \in Range(keys_to_purge) : k[2] \notin state_root_hash.eras
         THEN [tag |-> "DoesNotExist", post_state_hash |-> state_root_hash]
    ELSE [tag |-> "Success",
          post_state_hash |-> [state_root_hash EXCEPT !.eras = @ \ {k[2] : k \in Range(keys_to_purge)}]]

\* Block::new: the era end needs the era report and the validator weights
\* together.
BlockNew(state_root_hash, finalized_block, next_era_validator_weights) ==
    IF (finalized_block.era_report = None) # (next_era_validator_weights = None)
    THEN None
    ELSE Some([state_root_hash |-> state_root_hash,
               height |-> finalized_block.height,
               era_id |-> finalized_block.era_id,
               era_report |-> finalized_block.era_report,
               next_era_validator_weights |-> next_era_validator_weights])

\* ------------------------------------------------------------- state

VARIABLES
    \* execute_finalized_block: the arguments of the call
    args,
    \* the position of the call in execute_finalized_block
    pc,
    \* the roots held by the durable store (engine_state)
    durable,
    \* the scratch engine state's cached values (scratch_state)
    scratch,
    \* the locals state_root_hash, the iterator deploys.chain(transfers),
    \* execution_results, maybe_step_effect_and_upcoming_era_validators,
    \* next_era_validator_weights and previous_block_height
    state_root_hash, remaining, execution_results, maybe_step,
    next_era_validator_weights, previous_block_height,
    \* the StepRequest handed to the engine, if any
    step_request,
    \* the engine calls made so far, in order
    ops,
    \* how the call ended: "running", "Ok", "Err" or "panic"; the error; the block
    ret, error, block,
    \* the rest of the BlockAndExecutionEffects returned
    effects,
    \* what the metrics sink has received, in order
    observations,
    \* a call of calculate_purge_eras: its arguments, position and result
    calc_args, calc_pc, calc_result,
    \* a network of switch blocks: the bids and the validator weights of the
    \* eras to come in the current state, the switch block headers so far and
    \* the StepRequests handed to the engine
    bids, era_validators, switch_blocks, step_requests,
    \* the global state store behind a DataAccessLayer: the trie held under
    \* each known root, the readers checked out, the last checkout made, and a
    \* client's commits with their results
    tries, readers, last_checkout, commit_args, commit_log,
    \* the system contract dispatcher: the caller's tracking copy, how many
    \* addresses the address generator has given out, the calls dispatched
    \* with what they returned, and the root the effects were committed to
    tracking_copy, address_generator, dispatch_log, post_root_hash,
    \* the binary port's handle_state_request: the request, the position of
    \* the handler, whether the state identifier was resolved, the answers of
    \* the contract runtime so far, and the response
    port_request, port_pc, port_resolution, port_answers, port_response,
    \* the SDK's Map: the host's context storage, the last value inserted
    \* through each map under each key, the number of inserts, the last get
    context, inserted, inserts, last_get,
    \* the binary port component: self.state, the permits left in
    \* self.connection_limit, the handle_client tasks running, whether
    \* run_server was spawned, the config, how many handlers have finished,
    \* and the last event handled with what handling it did
    component_state, connection_limit, handlers, server, config, finished, last_event,
    \* one client connection: the position of handle_client_loop, the payload
    \* read last, the quota left in the rate limiter, what handle_payload did
    \* with the payload, the payloads received and the messages sent so far,
    \* the last message sent, and how the loop returned
    loop_pc, payload, quota, handled, received, sent, last_sent, loop_result,
    \* handle_request: the request with the node's config, the position of
    \* the handler, the requests it has made of other components, whether
    \* the transaction was accepted, and the response
    req, req_pc, issued, accepted, req_response,
    \* a delegator's bid, the last decrease_stake call on it with what it
    \* returned, and the locked amount at the last decrease that succeeded
    bid, last_decrease, locked_at_success

calc_vars == <<calc_args, calc_pc, calc_result>>

net_vars == <<bids, era_validators, switch_blocks, step_requests>>

\* The state of the components other than the block executor.
store_vars == <<tries, readers, last_checkout, commit_args, commit_log>>

dispatch_vars == <<tracking_copy, address_generator, dispatch_log, post_root_hash>>

port_vars == <<port_request, port_pc, port_resolution, port_answers, port_response>>

map_vars == <<context, inserted, inserts, last_get>>

component_vars == <<component_state, connection_limit, handlers, server, config, finished, last_event>>

connection_vars == <<loop_pc, payload, quota, handled, received, sent, last_sent, loop_result>>

request_vars == <<req, req_pc, issued, accepted, req_response>>

bid_vars == <<bid, last_decrease, locked_at_success>>

more_vars == <<component_vars, connection_vars, request_vars, bid_vars>>

aux_vars == <<net_vars, store_vars, dispatch_vars, port_vars, map_vars, more_vars>>

exec_vars == <<args, pc, durable, scratch, state_root_hash, remaining, execution_results, maybe_step, next_era_validator_weights, previous_block_height, step_request, ops, ret, error, block, effects, observations>>

vars == <<exec_vars, calc_vars, aux_vars>>

old_vars == <<exec_vars, calc_vars, net_vars, store_vars, dispatch_vars, port_vars, map_vars>>

\* ------------------------------------------------------ call arguments

\* EraReport { equivocators, rewards, inactive_validators }
EraReports ==
    [equivocators : ListsUpTo(Validators, MaxReportLen),
     rewards : {[v \in Validators |-> 1]},
     inactive_validators : ListsUpTo(Validators, MaxReportLen)]

\* ActivationPoint::EraId(e) and ActivationPoint::Genesis(timestamp)
ActivationEraId(e) == <<"EraId", e>>

ActivationGenesis == <<"Genesis", 0>>

\* A state a block may be executed on: the counter at 0, no bid inactive, and
\* the EraInfo records of the eras before MaxEra.
FullPreStateRoot == RootOf(0, 0..(MaxEra - 1), {})

\* The states a block may be executed on under a purge: that one, and the
\* one an earlier block has purged era 0 from.
PreStateRoots == {FullPreStateRoot, RootOf(0, 1..(MaxEra - 1), {})}

FinalizedBlocks ==
    [height : 0..MaxHeight, era_id : {1}, era_report : OptionOf(EraReports)]

ExecutionPreStates(roots) ==
    [pre_state_root_hash : roots, next_block_height : 0..(MaxHeight + 1)]

\* A deploy's hash: its list and its position in it.
DeployList(kinds, list) == [i \in 1..Len(kinds) |-> [id |-> <<list, i>>, kind |-> kinds[i]]]

LogOp(op, on, root, result) == [op |-> op, on |-> on, root |-> root, ret |-> result]

ExecInit(argset) ==
    /\ args \in argset
    /\ pc = "call"
    /\ durable = {args.execution_pre_state.pre_state_root_hash}
    /\ scratch = EmptyScratch
    /\ state_root_hash = args.execution_pre_state.pre_state_root_hash
    /\ remaining = <<>>
    /\ execution_results = <<>>
    /\ maybe_step = None
    /\ next_era_validator_weights = None
    /\ previous_block_height = None
    /\ step_request = None
    /\ ops = <<>>
    /\ ret = "running"
    /\ error = "none"
    /\ block = None
    /\ effects = None
    /\ observations = <<>>

\* if let Some(metrics) = metrics { metrics.<name>.observe(..) }, for each name
Observe(names) ==
    observations' = IF args.metrics = None THEN observations ELSE observations \o names

\* return Err(error)
ReturnErr(e) ==
    /\ pc' = "returned"
    /\ ret' = "Err"
    /\ error' = e

\* ------------------------------------------- execute_finalized_block

\* Faulty variant: only a block above the expected height is rejected.
WrongBlockHeight_only_above ==
    args.finalized_block.height > args.execution_pre_state.next_block_height

\* finalized_block.height() != execution_pre_state.next_block_height
WrongBlockHeight ==
    args.finalized_block.height # args.execution_pre_state.next_block_height

\* Faulty variant: the transfers are executed before the deploys.
transfers_chain_deploys ==
    DeployList(args.transfers, "transfer") \o DeployList(args.deploys, "deploy")

\* Faulty variant: the transfers of the block are left out.
deploys_without_transfers == DeployList(args.deploys, "deploy")

\* deploys.into_iter().chain(transfers)
deploys_chain_transfers ==
    DeployList(args.deploys, "deploy") \o DeployList(args.transfers, "transfer")

\* The height check, the locals and the scratch engine state.
Call ==
    /\ pc = "call"
    /\ IF WrongBlockHeight
       THEN /\ ReturnErr("WrongBlockHeight")
            /\ UNCHANGED <<state_root_hash, execution_results, scratch, remaining>>
       ELSE /\ pc' = "deploys"
            /\ state_root_hash' = args.execution_pre_state.pre_state_root_hash
            /\ execution_results' = <<>>
            /\ scratch' = EmptyScratch
            /\ remaining' = deploys_chain_transfers
            /\ UNCHANGED <<ret, error>>
    /\ UNCHANGED <<args, durable, maybe_step, next_era_validator_weights, previous_block_height, step_request, ops, block, effects, observations, calc_vars, aux_vars>>

\* Faulty variant: every deploy is executed on the pre-state root.
ExecuteRequestRoot_pre_state == args.execution_pre_state.pre_state_root_hash

\* ExecuteRequest::new(state_root_hash, ...)
ExecuteRequestRoot == state_root_hash

\* Faulty variant: the effects are committed on the durable engine state.
CommitEngine_durable == "engine_state"

\* commit_execution_effects(&scratch_state, ..): the engine state committed on.
CommitEngine == "scratch"

\* Faulty variant: the journal of a failed execution is dropped.
execution_effect_success_only(result) ==
    IF result.result = "Success" THEN result.execution_journal ELSE AddTransform(0)

\* The match in commit_execution_effects: the execution journal of the
\* result, of a Success and of a Failure alike.
execution_effect(result) == result.execution_journal

\* Faulty variant: no result passes like one result.
exactly_one_or_none(n) == n <= 1

\* Faulty variant: the first of several execution results is taken.
exactly_one_first(n) == n >= 1

\* execution_results.into_iter().exactly_one() on n results: Ok for one
\* result, Err for none and for more than one.
exactly_one(n) == n = 1

\* One turn of the loop over deploys.chain(transfers): execute, then
\* commit_execution_effects, then push the result and advance the root.
ExecuteDeploy ==
    /\ pc = "deploys"
    /\ remaining # <<>>
    /\ LET deploy == Head(remaining)
           request_root == ExecuteRequestRoot
           result == ExecutionResultOf(deploy.kind, ScratchView(scratch, request_root))
           committed == ScratchApplyEffect(scratch, state_root_hash, execution_effect(result))
       IN \/ \* execute(..)? fails
             /\ ReturnErr("ExecuteError")
             /\ Observe(<<"run_execute">>)
             /\ ops' = Append(ops, LogOp("run_execute", "scratch", request_root, None))
             /\ UNCHANGED <<durable, scratch, state_root_hash, remaining, execution_results>>
          \/ \* exactly_one() fails: no result, or more than one
             \E n \in 0..MaxResults :
                /\ ~exactly_one(n)
                /\ ReturnErr("MoreThanOneExecutionResult")
                /\ Observe(<<"run_execute">>)
                /\ ops' = Append(ops, LogOp("run_execute", "scratch", request_root, Some([results |-> n])))
                /\ UNCHANGED <<durable, scratch, state_root_hash, remaining, execution_results>>
          \/ \* commit_transforms(..)? fails
             \E n \in 0..MaxResults :
                /\ exactly_one(n)
                /\ ReturnErr("CommitError")
                /\ Observe(<<"run_execute", "apply_effect">>)
                /\ ops' = ops \o <<LogOp("run_execute", "scratch", request_root, Some([results |-> n])),
                                   LogOp("apply_effect", CommitEngine, state_root_hash, None)>>
                /\ UNCHANGED <<durable, scratch, state_root_hash, remaining, execution_results>>
          \/ \E n \in 0..MaxResults :
                /\ exactly_one(n)
                /\ scratch' = IF CommitEngine = "scratch" THEN committed.scratch ELSE scratch
                /\ durable' = IF CommitEngine = "scratch" THEN durable ELSE durable \cup {committed.root}
                /\ state_root_hash' = committed.root
                /\ execution_results' = Append(execution_results, [id |-> deploy.id, result |-> result.result, observed |-> result.observed])
                /\ remaining' = Tail(remaining)
                /\ Observe(<<"run_execute", "apply_effect">>)
                /\ ops' = ops \o <<LogOp("run_execute", "scratch", request_root, Some([results |-> n])),
                                   LogOp("apply_effect", CommitEngine, state_root_hash, Some(committed.root))>>
                /\ UNCHANGED <<pc, ret, error>>
    /\ UNCHANGED <<args, maybe_step, next_era_validator_weights, previous_block_height, step_request, block, effects, calc_vars, aux_vars>>

\* ------------------------------------------------------- commit_step

\* Faulty variant: only the inactive validators are evicted.
evict_items_inactive_only(era_report) == era_report.inactive_validators

\* inactive_validators.iter().chain(equivocators).cloned().map(EvictItem::new).collect()
evict_items(era_report) == era_report.inactive_validators \o era_report.equivocators

\* rewards.iter().map(|(vid, value)| RewardItem::new(vid.clone(), *value)).collect()
reward_items(era_report) == era_report.rewards

\* Faulty variant: the equivocators are slashed.
StepRequestOf_slashing(pre_state_root_hash, era_report, next_era_id) ==
    [pre_state_hash |-> pre_state_root_hash,
     reward_items |-> reward_items(era_report),
     slash_items |-> era_report.equivocators,
     evict_items |-> evict_items(era_report),
     next_era_id |-> next_era_id]

\* StepRequest { pre_state_hash, reward_items, slash_items: vec![], evict_items, next_era_id, .. }
StepRequestOf(pre_state_root_hash, era_report, next_era_id) ==
    [pre_state_hash |-> pre_state_root_hash,
     reward_items |-> reward_items(era_report),
     slash_items |-> <<>>,
     evict_items |-> evict_items(era_report),
     next_era_id |-> next_era_id]

\* Faulty variant: the era report of a block is never looked at.
HasEraReport_never == FALSE

\* if let Some(era_report) = finalized_block.era_report()
HasEraReport == args.finalized_block.era_report # None

\* The deploys are all executed.
DeploysDone == pc = "deploys" /\ remaining = <<>>

\* Faulty variant: the step is committed on the durable engine state.
StepEngine_durable == "engine_state"

\* commit_step(&scratch_state, ..): the engine state the step is committed on.
StepEngine == "scratch"

\* Faulty variant: a failed step is dropped and the block goes on.
StepErrorReturned_ignored == FALSE

\* The ? on commit_step(..): its Err is returned from execute_finalized_block.
StepErrorReturned == TRUE

\* commit_step(&scratch_state, .., state_root_hash, era_report, ..)?; the
\* post-state hash it returns is ignored.
CommitStep ==
    /\ DeploysDone
    /\ HasEraReport
    /\ LET request == StepRequestOf(state_root_hash, args.finalized_block.era_report[1], args.finalized_block.era_id + 1)
           committed == ScratchCommitStep(scratch, request)
       IN /\ step_request' = Some(request)
          /\ Observe(<<"exec_block", "commit_step", "latest_commit_step">>)
          /\ \/ /\ ops' = Append(ops, LogOp("commit_step", StepEngine, state_root_hash, None))
                /\ IF StepErrorReturned
                   THEN ReturnErr("StepError")
                   ELSE pc' = "write" /\ UNCHANGED <<ret, error>>
                /\ UNCHANGED <<durable, scratch>>
             \/ /\ pc' = "write"
                /\ scratch' = IF StepEngine = "scratch" THEN committed.scratch ELSE scratch
                /\ durable' = IF StepEngine = "scratch" THEN durable ELSE durable \cup {committed.root}
                /\ ops' = Append(ops, LogOp("commit_step", StepEngine, state_root_hash, Some(committed.root)))
                /\ UNCHANGED <<ret, error>>
    /\ UNCHANGED <<args, state_root_hash, remaining, execution_results, maybe_step, next_era_validator_weights, previous_block_height, block, effects, calc_vars, aux_vars>>

\* state_root_hash = engine_state.write_scratch_to_db(state_root_hash, scratch_state.into_inner())?
WriteScratch ==
    /\ IF HasEraReport THEN pc = "write" ELSE DeploysDone
    /\ Observe(IF HasEraReport THEN <<>> ELSE <<"exec_block">>)
    /\ LET written == WriteScratchToDb(state_root_hash, scratch)
       IN \/ /\ ReturnErr("WriteScratchError")
             /\ ops' = Append(ops, LogOp("write_scratch_to_db", "engine_state", state_root_hash, None))
             /\ UNCHANGED <<durable, state_root_hash>>
          \/ /\ pc' = IF HasEraReport THEN "era_validators" ELSE "flush"
             /\ durable' = durable \cup {written}
             /\ state_root_hash' = written
             /\ ops' = Append(ops, LogOp("write_scratch_to_db", "engine_state", state_root_hash, Some(written)))
             /\ UNCHANGED <<ret, error>>
    /\ UNCHANGED <<args, scratch, remaining, execution_results, maybe_step, next_era_validator_weights, previous_block_height, step_request, block, effects, calc_vars, aux_vars>>

\* The validator weights recorded at a root for the eras in `eras`.
EraValidatorsAt(root, eras) == [e \in eras |-> [v \in Validators \ root.evicted |-> 1]]

\* engine_state.get_era_validators(.., GetEraValidatorsRequest::new(state_root_hash, ..))?
GetEraValidators ==
    /\ pc = "era_validators"
    /\ ops' = Append(ops, LogOp("get_era_validators", "engine_state", state_root_hash, None))
    /\ \/ /\ ReturnErr("GetEraValidatorsError")
          /\ UNCHANGED maybe_step
       \/ \E eras \in {{}, {args.finalized_block.era_id + 1}} :
             /\ pc' = "flush"
             /\ maybe_step' = Some([step_execution_journal |-> step_request[1].evict_items,
                                    upcoming_era_validators |-> EraValidatorsAt(state_root_hash, eras)])
             /\ UNCHANGED <<ret, error>>
    /\ UNCHANGED <<args, durable, scratch, state_root_hash, remaining, execution_results, next_era_validator_weights, previous_block_height, step_request, block, effects, observations, calc_vars, aux_vars>>

\* Faulty variant: a successor era without recorded weights gets an empty map.
NextEraValidatorWeights_or_default ==
    IF maybe_step = None THEN None
    ELSE LET upcoming == maybe_step[1].upcoming_era_validators
             successor == args.finalized_block.era_id + 1
         IN IF successor \in DOMAIN upcoming THEN Some(upcoming[successor]) ELSE Some(<<>>)

\* upcoming_era_validators.get(&finalized_block.era_id().successor()).cloned()
NextEraValidatorWeights ==
    IF maybe_step = None THEN None
    ELSE LET upcoming == maybe_step[1].upcoming_era_validators
             successor == args.finalized_block.era_id + 1
         IN IF successor \in DOMAIN upcoming THEN Some(upcoming[successor]) ELSE None

\* Faulty variant: the flush is made inside the block that updates the
\* chain height metric, so only when there is a metrics sink.
FlushEnvironment_with_metrics_only ==
    /\ pc = "flush"
    /\ ops' = IF args.metrics = None THEN ops
              ELSE Append(ops, LogOp("flush_environment", "engine_state", state_root_hash, None))
    /\ \/ /\ args.metrics # None
          /\ ReturnErr("FlushError")
          /\ UNCHANGED <<next_era_validator_weights, observations>>
       \/ /\ pc' = "purge"
          /\ Observe(<<"chain_height">>)
          /\ next_era_validator_weights' = NextEraValidatorWeights
          /\ UNCHANGED <<ret, error>>
    /\ UNCHANGED <<args, durable, scratch, state_root_hash, remaining, execution_results, maybe_step, previous_block_height, step_request, block, effects, calc_vars, aux_vars>>

\* engine_state.flush_environment()?, then the next era's validator weights.
FlushEnvironment ==
    /\ pc = "flush"
    /\ ops' = Append(ops, LogOp("flush_environment", "engine_state", state_root_hash, None))
    /\ \/ /\ ReturnErr("FlushError")
          /\ UNCHANGED <<next_era_validator_weights, observations>>
       \/ /\ pc' = "purge"
          /\ Observe(<<"chain_height">>)
          /\ next_era_validator_weights' = NextEraValidatorWeights
          /\ UNCHANGED <<ret, error>>
    /\ UNCHANGED <<args, durable, scratch, state_root_hash, remaining, execution_results, maybe_step, previous_block_height, step_request, block, effects, calc_vars, aux_vars>>

\* ------------------------------------------------------------ purging

\* The arm (ActivationPoint::EraId(_), Some(_)) of the match.
PurgeArm ==
    /\ args.activation_point[1] = "EraId"
    /\ args.activation_point_block_height # None

\* Faulty variant: the block's own height is handed to calculate_purge_eras.
PreviousBlockHeight_current == args.finalized_block.height

\* let previous_block_height = finalized_block.height() - 1, as a build
\* without overflow checks computes it.
PreviousBlockHeight == (args.finalized_block.height - 1) % (U64_MAX + 1)

\* Faulty variant: every era before the activation point is purged at once.
KeysToPurge_all_at_once ==
    Some([i \in 1..args.activation_point[2] |-> EraInfo(i - 1)])

\* calculate_purge_eras(activation_point, activation_point_block_height,
\*                      previous_block_height, purge_batch_size)
KeysToPurge ==
    calculate_purge_eras(args.activation_point[2], args.activation_point_block_height[1], PreviousBlockHeight, args.purge_batch_size)

\* Faulty variant: a purge that finds no root or no key fails the block.
FatalPurgeResults_not_found == {"RootNotFound", "DoesNotExist"}

\* The PurgeResult values on which the block fails: the arms for
\* Ok(RootNotFound), Ok(DoesNotExist) and Ok(Success) all go on to Block::new.
FatalPurgeResults == {}

\* Faulty variant: the root the purge answers with is dropped.
StateRootAfterPurge_unchanged(answer) == state_root_hash

\* state_root_hash after the match on the PurgeResult: only the arm for
\* Success assigns it, post_state_hash.
StateRootAfterPurge(answer) ==
    IF answer.tag = "Success" THEN answer.post_state_hash ELSE state_root_hash

\* The match on (activation_point, activation_point_block_height).
Purge ==
    /\ pc = "purge"
    /\ \/ \* the three arms that only log
          /\ ~PurgeArm
          /\ pc' = "assemble"
          /\ UNCHANGED <<durable, state_root_hash, previous_block_height, ops, ret, error>>
       \/ \* height() - 1 at height 0, in a build with overflow checks
          /\ PurgeArm
          /\ args.finalized_block.height = 0
          /\ pc' = "returned"
          /\ ret' = "panic"
          /\ UNCHANGED <<durable, state_root_hash, previous_block_height, ops, error>>
       \/ \* calculate_purge_eras returns None
          /\ PurgeArm
          /\ KeysToPurge = None
          /\ previous_block_height' = Some(PreviousBlockHeight)
          /\ pc' = "assemble"
          /\ UNCHANGED <<durable, state_root_hash, ops, ret, error>>
       \/ \* commit_purge fails
          /\ PurgeArm
          /\ KeysToPurge # None
          /\ previous_block_height' = Some(PreviousBlockHeight)
          /\ ops' = Append(ops, LogOp("commit_purge", "engine_state", <<state_root_hash, KeysToPurge[1]>>, None))
          /\ ReturnErr("PurgeError")
          /\ UNCHANGED <<durable, state_root_hash>>
       \/ \* commit_purge answers with a PurgeResult
          /\ PurgeArm
          /\ KeysToPurge # None
          /\ previous_block_height' = Some(PreviousBlockHeight)
          /\ LET answer == PurgeResultOf(durable, state_root_hash, KeysToPurge[1])
             IN /\ ops' = Append(ops, LogOp("commit_purge", "engine_state", <<state_root_hash, KeysToPurge[1]>>, Some(answer)))
                /\ durable' = IF answer.tag = "Success" THEN durable \cup {answer.post_state_hash} ELSE durable
                /\ IF answer.tag \in FatalPurgeResults
                   THEN /\ ReturnErr("PurgeError")
                        /\ UNCHANGED state_root_hash
                   ELSE /\ state_root_hash' = StateRootAfterPurge(answer)
                        /\ pc' = "assemble"
                        /\ UNCHANGED <<ret, error>>
    /\ UNCHANGED <<args, scratch, remaining, execution_results, maybe_step, next_era_validator_weights, step_request, block, effects, observations, calc_vars, aux_vars>>

\* execution_results.into_iter().map(|(hash, header, result)| (hash, (header, result))).collect()
\* into the ordered list of results the call returns.
patched_execution_results(results) ==
    [k \in DOMAIN results |->
        <<results[k].id, [result |-> results[k].result, observed |-> results[k].observed]>>]

\* Block::new(.., state_root_hash, finalized_block, next_era_validator_weights, ..)?
\* and Ok(BlockAndExecutionEffects { .. })
Assemble ==
    /\ pc = "assemble"
    /\ LET new_block == BlockNew(state_root_hash, args.finalized_block, next_era_validator_weights)
       IN IF new_block = None
          THEN /\ ReturnErr("BlockCreationError")
               /\ UNCHANGED <<block, effects>>
          ELSE /\ pc' = "returned"
               /\ ret' = "Ok"
               /\ block' = new_block
               /\ effects' = Some([execution_results |-> patched_execution_results(execution_results),
                                   maybe_step_effect_and_upcoming_era_validators |-> maybe_step])
               /\ UNCHANGED error
    /\ UNCHANGED <<args, durable, scratch, state_root_hash, remaining, execution_results, maybe_step, next_era_validator_weights, previous_block_height, step_request, ops, observations, calc_vars, aux_vars>>

\* ------------------------------------- calculate_purge_eras as a process

CalcArgs ==
    [activation_era_id : U64, activation_height : U64, current_height : U64, batch_size : U64]

CalcIdle ==
    /\ calc_args = [activation_era_id |-> 0, activation_height |-> 0, current_height |-> 0, batch_size |-> 0]
    /\ calc_pc = "unused"
    /\ calc_result = None

CalculatePurgeEras ==
    /\ calc_pc = "call"
    /\ calc_pc' = "returned"
    /\ calc_result' = calculate_purge_eras(calc_args.activation_era_id, calc_args.activation_height, calc_args.current_height, calc_args.batch_size)
    /\ UNCHANGED <<calc_args, exec_vars, aux_vars>>

\* --------------------------------------------- a network of switch blocks
\* run_equivocator_network: a chain whose every era ends with a switch block.
\* The block executor steps the auction with the StepRequest of commit_step;
\* the auction itself is the engine's.

\* Most switch blocks of a run.
MaxSwitchBlocks == 3

\* stakes.insert(PublicKey::from(&*alice_sk), U512::from(1))
AliceStake == 1

\* (PublicKey::from(..), U512::from(100)) for the other validators
OtherStake == 100

\* "The auction delay is 1": the auction run at the end of era N seats the
\* validators of era N + 1 + AuctionDelay.
AuctionDelay == 1

InitialStakes == [v \in Validators |-> IF v = "alice" THEN AliceStake ELSE OtherStake]

\* The bids at genesis: every validator staked, no bid inactive.
GenesisBids == [v \in Validators |-> [staked_amount |-> InitialStakes[v], inactive |-> FALSE]]

\* The weights of the bids that may be seated: active, with a stake.
SeatedWeights(b) ==
    LET seated == {v \in Validators : ~b[v].inactive /\ b[v].staked_amount > 0}
    IN [v \in seated |-> b[v].staked_amount]

\* The genesis validators sit in the eras 0..AuctionDelay.
GenesisEraValidators == [e \in 0..AuctionDelay |-> SeatedWeights(GenesisBids)]

\* EngineState::commit_step on the auction: a slashed bid loses its stake, a
\* rewarded one grows, an evicted one becomes inactive, and the auction seats
\* the validators of the era AuctionDelay after next_era_id.
StepAuction(request) ==
    LET pre == request.pre_state_hash
        slashed == Range(request.slash_items)
        evicted == Range(request.evict_items)
        post_bids == [v \in Validators |->
                        [staked_amount |-> IF v \in slashed THEN 0
                                           ELSE pre.bids[v].staked_amount + request.reward_items[v],
                         inactive |-> pre.bids[v].inactive \/ v \in evicted]]
        seated_era == request.next_era_id + AuctionDelay
    IN [bids |-> post_bids,
        era_validators |-> [e \in (DOMAIN pre.era_validators) \cup {seated_era} |->
                              IF e = seated_era THEN SeatedWeights(post_bids) ELSE pre.era_validators[e]]]

\* The state a switch block is executed on.
NetworkState == [bids |-> bids, era_validators |-> era_validators]

\* The era reports consensus may hand over at the end of an era: the faulty
\* ones are validators of that era.
EraReportsOf(validators) ==
    {r \in EraReports : Range(r.equivocators) \cup Range(r.inactive_validators) \subseteq validators}

\* The switch block of the current era is executed: commit_step with the era
\* report, then the validator weights of the successor era go into the header.
SwitchBlock ==
    /\ Len(switch_blocks) < MaxSwitchBlocks
    /\ LET era_id == Len(switch_blocks)
       IN /\ DOMAIN era_validators[era_id] # {}
          /\ \E era_report \in EraReportsOf(DOMAIN era_validators[era_id]) :
                LET request == StepRequestOf(NetworkState, era_report, era_id + 1)
                    post == StepAuction(request)
                IN /\ step_requests' = Append(step_requests, request)
                   /\ bids' = post.bids
                   /\ era_validators' = post.era_validators
                   /\ switch_blocks' = Append(switch_blocks,
                                              [era_id |-> era_id,
                                               era_report |-> era_report,
                                               state |-> post,
                                               next_era_validator_weights |-> post.era_validators[era_id + 1]])
    /\ UNCHANGED <<exec_vars, calc_vars, store_vars, dispatch_vars, port_vars, map_vars, more_vars>>

NetIdle ==
    /\ bids = GenesisBids
    /\ era_validators = GenesisEraValidators
    /\ switch_blocks = <<>>
    /\ step_requests = <<>>

\* ------------------------------------------------- the global state store
\* The store behind DataAccessLayer::state. A root is identified with the
\* trie it digests: the value, if any, under each key.

StoreKeys == {"a", "b"}

\* Largest value a transform writes.
MaxStoreValue == 2

\* Transform::Identity, Write(v), AddUInt64(n), Prune and Failure
Identity == [kind |-> "Identity", value |-> 0]

Write(v) == [kind |-> "Write", value |-> v]

AddUInt(n) == [kind |-> "Add", value |-> n]

Prune == [kind |-> "Prune", value |-> 0]

Failure == [kind |-> "Failure", value |-> 0]

Transforms == {Identity, Prune, AddUInt(1)} \cup {Write(v) : v \in 1..MaxStoreValue}

\* Effects: a transform for every key (Identity for a key left alone).
EffectSets == [StoreKeys -> Transforms]

NoEffects == [k \in StoreKeys |-> Identity]

\* The tries a run may start from.
StoreRoots == [StoreKeys -> OptionOf(1..MaxStoreValue)]

\* The root of the trie without keys.
EmptyRoot == [k \in StoreKeys |-> None]

\* A transform that cannot be applied to the stored value: an add to a key
\* that is absent, or a transform that is itself a failure.
TransformFails(stored, t) == t.kind = "Failure" \/ (t.kind = "Add" /\ stored = None)

ApplyTransform(stored, t) ==
    IF t.kind = "Write" THEN Some(t.value)
    ELSE IF t.kind = "Add" THEN Some(stored[1] + t.value)
    ELSE IF t.kind = "Prune" THEN None
    ELSE stored

ApplyEffects(trie, effs) == [k \in StoreKeys |-> ApplyTransform(trie[k], effs[k])]

\* Faulty variant: the earlier transform of a key wins over the later one.
MergeTransform_first_wins(a, b) == IF a.kind = "Identity" THEN b ELSE a

\* The transform that stands for a followed by b on one key: the later write
\* or prune wins, adds are summed, an add on a write is the write of the sum.
MergeTransform(a, b) ==
    IF b.kind = "Identity" \/ a.kind = "Failure" THEN a
    ELSE IF b.kind \in {"Write", "Prune", "Failure"} THEN b
    ELSE IF a.kind = "Identity" THEN b
    ELSE IF a.kind = "Write" THEN Write(a.value + b.value)
    ELSE IF a.kind = "Add" THEN AddUInt(a.value + b.value)
    ELSE Failure

MergeEffects(A, B) == [k \in StoreKeys |-> MergeTransform(A[k], B[k])]

\* Result<Digest, GlobalStateError> of a commit, with the store it leaves.
CommitOk(root, t) == [tag |-> "Ok", root |-> Some(root), error |-> "none", tries |-> t]

CommitErr(e, t) == [tag |-> "Err", root |-> None, error |-> e, tries |-> t]

\* Faulty variant: the trie under the pre-state root is changed in place.
StateCommitEffects_in_place(t, state_hash, effs) ==
    IF state_hash \notin DOMAIN t THEN CommitErr("RootNotFound", t)
    ELSE IF \E k \in StoreKeys : TransformFails(t[state_hash][k], effs[k]) THEN CommitErr("TransformError", t)
    ELSE CommitOk(state_hash, [r \in DOMAIN t |-> IF r = state_hash THEN ApplyEffects(t[state_hash], effs) ELSE t[r]])

\* S::commit_effects: the effects applied to a copy of the trie under
\* state_hash; the new trie is stored under its own root.
StateCommitEffects(t, state_hash, effs) ==
    IF state_hash \notin DOMAIN t THEN CommitErr("RootNotFound", t)
    ELSE IF \E k \in StoreKeys : TransformFails(t[state_hash][k], effs[k]) THEN CommitErr("TransformError", t)
    ELSE LET new == ApplyEffects(t[state_hash], effs)
         IN CommitOk(new, [r \in (DOMAIN t) \cup {new} |-> IF r = new THEN new ELSE t[r]])

\* S::commit_values: the values of a scratch state written and its keys pruned.
StateCommitValues(t, state_hash, values_to_write, keys_to_prune) ==
    StateCommitEffects(t, state_hash,
        [k \in StoreKeys |-> IF k \in keys_to_prune THEN Prune
                             ELSE IF k \in DOMAIN values_to_write THEN Write(values_to_write[k])
                             ELSE Identity])

\* S::checkout: a reader at a known root, None at any other, or a store error.
StateCheckout(t, state_hash) ==
    {[tag |-> "Err", state_hash |-> state_hash]} \cup
    {[tag |-> IF state_hash \in DOMAIN t THEN "Reader" ELSE "None", state_hash |-> state_hash]}

\* ------------------------------------------------------ DataAccessLayer

\* Faulty variant: the effects are committed on the empty root.
commit_effects_on_empty_root(t, state_hash, effs) == StateCommitEffects(t, EmptyRoot, effs)

\* Faulty variant: the effects are not handed on.
commit_effects_without_effects(t, state_hash, effs) == StateCommitEffects(t, state_hash, NoEffects)

\* CommitProvider::commit_effects: self.state.commit_effects(state_hash, effects)
commit_effects(t, state_hash, effs) == StateCommitEffects(t, state_hash, effs)

\* CommitProvider::commit_values: self.state.commit_values(state_hash, values_to_write, keys_to_prune)
commit_values(t, state_hash, values_to_write, keys_to_prune) == StateCommitValues(t, state_hash, values_to_write, keys_to_prune)

\* StateProvider::checkout: self.state.checkout(state_hash)
checkout(t, state_hash) == StateCheckout(t, state_hash)

\* TrackingCopy::new(reader, max_query_depth, enable_entity): nothing pending.
TrackingCopyNew(reader) == [reader |-> reader, effects |-> NoEffects]

\* Faulty variant: a root that is not found gives a tracking copy of the
\* empty trie.
tracking_copy_of_or_empty(checked_out) ==
    IF checked_out.tag = "Err" THEN [tag |-> "Err", tracking_copy |-> None]
    ELSE IF checked_out.tag = "Reader" THEN [tag |-> "Some", tracking_copy |-> Some(TrackingCopyNew(checked_out.state_hash))]
    ELSE [tag |-> "Some", tracking_copy |-> Some(TrackingCopyNew(EmptyRoot))]

\* StateProvider::tracking_copy: match self.state.checkout(hash)? { Some(reader)
\* => Ok(Some(TrackingCopy::new(reader, ..))), None => Ok(None) }
tracking_copy_of(checked_out) ==
    IF checked_out.tag = "Err" THEN [tag |-> "Err", tracking_copy |-> None]
    ELSE IF checked_out.tag = "Reader" THEN [tag |-> "Some", tracking_copy |-> Some(TrackingCopyNew(checked_out.state_hash))]
    ELSE [tag |-> "None", tracking_copy |-> None]

\* Most roots the store holds.
MaxRoots == 3

\* What a reader reads now: the trie under its root.
ReaderView(reader) == tries[reader.state_hash]

\* A root the store does not hold, if there is one.
UnknownRoots == IF StoreRoots \subseteq DOMAIN tries THEN {} ELSE {CHOOSE r \in StoreRoots : r \notin DOMAIN tries}

\* checkout(state_hash) by the reading thread: it keeps the reader, with
\* what the reader read first and last and how many roots the store held at
\* those times.
Checkout ==
    /\ \E state_hash \in (DOMAIN tries) \cup UnknownRoots : \E checked_out \in checkout(tries, state_hash) :
          readers' = IF checked_out.tag = "Reader"
                     THEN <<[state_hash |-> checked_out.state_hash, roots_at_checkout |-> Cardinality(DOMAIN tries), first |-> tries[checked_out.state_hash],
                             roots_at_read |-> Cardinality(DOMAIN tries), last |-> tries[checked_out.state_hash]]>>
                     ELSE readers
    /\ UNCHANGED <<tries, last_checkout, commit_args, commit_log, exec_vars, calc_vars, net_vars, dispatch_vars, port_vars, map_vars, more_vars>>

\* tracking_copy(hash) by the reading thread.
TrackingCopy ==
    /\ \E hash \in (DOMAIN tries) \cup UnknownRoots : \E checked_out \in StateCheckout(tries, hash) :
          last_checkout' = Some([known |-> hash \in DOMAIN tries, checked_out |-> checked_out, ret |-> tracking_copy_of(checked_out)])
    /\ UNCHANGED <<tries, readers, commit_args, commit_log, exec_vars, calc_vars, net_vars, dispatch_vars, port_vars, map_vars, more_vars>>

\* The reader reads its snapshot.
Read ==
    /\ \E i \in DOMAIN readers :
          readers' = [readers EXCEPT ![i].last = ReaderView(readers[i]), ![i].roots_at_read = Cardinality(DOMAIN tries)]
    /\ UNCHANGED <<tries, last_checkout, commit_args, commit_log, exec_vars, calc_vars, net_vars, dispatch_vars, port_vars, map_vars, more_vars>>

\* The effects a block commits while readers are open.
SomeEffects ==
    {[a |-> Write(1), b |-> Identity], [a |-> AddUInt(1), b |-> Write(MaxStoreValue)], [a |-> Prune, b |-> AddUInt(1)]}

\* commit_effects(state_hash, effects) by the block executor.
CommitEffects ==
    /\ Cardinality(DOMAIN tries) < MaxRoots
    /\ \E state_hash \in DOMAIN tries : \E effs \in SomeEffects :
          tries' = commit_effects(tries, state_hash, effs).tries
    /\ tries' # tries
    /\ UNCHANGED <<readers, last_checkout, commit_args, commit_log, exec_vars, calc_vars, net_vars, dispatch_vars, port_vars, map_vars, more_vars>>

\* commit_values(state_hash, values_to_write, keys_to_prune): the flush of a
\* scratch state, and a purge (keys to prune only).
CommitValues ==
    /\ Cardinality(DOMAIN tries) < MaxRoots
    /\ \E state_hash \in DOMAIN tries : \E written \in SUBSET StoreKeys : \E keys_to_prune \in SUBSET StoreKeys :
          tries' = commit_values(tries, state_hash, [k \in written |-> MaxStoreValue], keys_to_prune).tries
    /\ tries' # tries
    /\ UNCHANGED <<readers, last_checkout, commit_args, commit_log, exec_vars, calc_vars, net_vars, dispatch_vars, port_vars, map_vars, more_vars>>

\* A client commits A, then B on the root that gives, then A merged with B
\* on the root it started from.
ClientCommit ==
    /\ commit_args # None
    /\ Len(commit_log) < 3
    /\ LET n == Len(commit_log)
           state_hash == IF n = 1 THEN commit_log[1].ret.root ELSE Some(commit_args[1].initial)
           effs == IF n = 0 THEN commit_args[1].A
                      ELSE IF n = 1 THEN commit_args[1].B
                      ELSE MergeEffects(commit_args[1].A, commit_args[1].B)
       IN /\ state_hash # None
          /\ LET result == commit_effects(tries, state_hash[1], effs)
             IN /\ tries' = result.tries
                /\ commit_log' = Append(commit_log, [state_hash |-> state_hash[1], effects |-> effs,
                                                     ret |-> [tag |-> result.tag, root |-> result.root, error |-> result.error]])
    /\ UNCHANGED <<readers, last_checkout, commit_args, exec_vars, calc_vars, net_vars, dispatch_vars, port_vars, map_vars, more_vars>>

StoreIdle ==
    /\ tries = [r \in {EmptyRoot} |-> r]
    /\ readers = <<>>
    /\ last_checkout = None
    /\ commit_args = None
    /\ commit_log = <<>>

\* ------------------------------------------- dispatch_system_contract
\* vm/src/storage/runtime.rs: a system contract call runs on a fork of the
\* caller's tracking copy, which is merged back when the call is over.

\* Most system contract calls dispatched on one tracking copy.
MaxDispatches == 3

\* The purse addresses the address generator gives out, in order.
PurseAddresses == <<"a", "b">>

\* TrackingCopy::read: the value under the root the reader is at, with the
\* pending transform of the key applied.
TrackingCopyRead(tc, t, key) == ApplyTransform(t[tc.reader][key], tc.effects[key])

\* TrackingCopy::write: the write is pending in the tracking copy.
TrackingCopyWrite(tc, key, value) == [tc EXCEPT !.effects[key] = MergeTransform(@, Write(value))]

\* TrackingCopy::fork2: an overlay on the same reader that starts from the
\* parent's pending effects.
fork2(tc) == [reader |-> tc.reader, effects |-> tc.effects]

\* TrackingCopy::merge_raw_parts: the parent takes over the parts of the fork.
merge_raw_parts(tc, parts) == [reader |-> tc.reader, effects |-> parts.effects]

\* Result of a call: Result<URef, Error> of mint, Result<U512, Error> of
\* total_balance.
DispatchOk(uref, balance) == [tag |-> "Ok", uref |-> uref, balance |-> balance]

DispatchErr == [tag |-> "Err", uref |-> None, balance |-> None]

\* The calls: runtime.mint(initial_balance) and runtime.total_balance(uref).
SystemCalls ==
    {[func |-> "mint", initial_balance |-> Some(v), uref |-> None] : v \in 1..MaxStoreValue}
        \cup {[func |-> "total_balance", initial_balance |-> None, uref |-> Some(u)] : u \in StoreKeys}

\* RuntimeNative on the forked tracking copy: mint writes the balance under
\* a new purse, total_balance reads the balance under a purse.
RunNative(forked, t, generated, call) ==
    IF call.func = "mint"
    THEN LET uref == PurseAddresses[generated + 1]
         IN [ret |-> DispatchOk(Some(uref), None),
             tracking_copy |-> TrackingCopyWrite(forked, uref, call.initial_balance[1])]
    ELSE LET balance == TrackingCopyRead(forked, t, call.uref[1])
         IN [ret |-> IF balance = None THEN DispatchErr ELSE DispatchOk(None, balance),
             tracking_copy |-> forked]

\* Faulty variant: the fork is dropped when the call is over.
merge_back_dropped(tc, modified_tracking_copy) == tc

\* tracking_copy.merge_raw_parts(modified_tracking_copy.into_raw_parts())
merge_back(tc, modified_tracking_copy) == merge_raw_parts(tc, modified_tracking_copy)

\* dispatch_system_contract(&mut tracking_copy, .., func): fork, run func on
\* the fork, merge the fork back, return what func returned.
DispatchSystemContract ==
    /\ tracking_copy # None
    /\ post_root_hash = None
    /\ Len(dispatch_log) < MaxDispatches
    /\ \E call \in SystemCalls :
          /\ call.func = "mint" => address_generator < Len(PurseAddresses)
          /\ LET forked_tracking_copy == fork2(tracking_copy[1])
                 ran == RunNative(forked_tracking_copy, tries, address_generator, call)
             IN /\ tracking_copy' = Some(merge_back(tracking_copy[1], ran.tracking_copy))
                /\ address_generator' = IF call.func = "mint" THEN address_generator + 1 ELSE address_generator
                /\ dispatch_log' = Append(dispatch_log, [call |-> call, ret |-> ran.ret])
    /\ UNCHANGED <<tries, post_root_hash, readers, last_checkout, commit_args, commit_log, exec_vars, calc_vars, net_vars, port_vars, map_vars, more_vars>>

\* global_state.commit(root_hash, tracking_copy.effects())
CommitTrackingCopy ==
    /\ tracking_copy # None
    /\ post_root_hash = None
    /\ LET result == StateCommitEffects(tries, tracking_copy[1].reader, tracking_copy[1].effects)
       IN /\ result.tag = "Ok"
          /\ tries' = result.tries
          /\ post_root_hash' = result.root
    /\ UNCHANGED <<tracking_copy, address_generator, dispatch_log, readers, last_checkout, commit_args, commit_log, exec_vars, calc_vars, net_vars, port_vars, map_vars, more_vars>>

DispatchIdle ==
    /\ tracking_copy = None
    /\ address_generator = 0
    /\ dispatch_log = <<>>
    /\ post_root_hash = None

\* ------------------------------------ binary port: handle_state_request

\* Option<GlobalStateIdentifier>: None is the highest complete block.
StateIdentifiers == {"None", "BlockHash", "BlockHeight", "StateRootHash"}

\* GlobalStateEntityQualifier
Qualifiers == {"Item", "AllItems", "DictionaryItem", "Balance", "ItemsByPrefix"}

\* DictionaryItemIdentifier
DictionaryItemIdentifiers == {"AccountNamedKey", "ContractNamedKey", "EntityNamedKey", "URef", "DictionaryItem"}

\* A request, with what the node has at the time: whether storage has the
\* block header the identifier names, whether the contract runtime's store
\* holds the state root, and config.allow_request_get_all_values.
GlobalStateRequests ==
    {r \in [state_identifier : StateIdentifiers, header_in_storage : BOOLEAN, root_in_store : BOOLEAN,
            qualifier : Qualifiers, identifier : DictionaryItemIdentifiers \cup {"none"},
            allow_request_get_all_values : BOOLEAN] :
        (r.qualifier = "DictionaryItem") <=> (r.identifier # "none")}

\* BinaryResponse::new_error(code), new_empty() and from_value(..)
new_error(code) == [is_success |-> FALSE, error_code |-> code, payload |-> "none"]

new_empty == [is_success |-> TRUE, error_code |-> "NoError", payload |-> "empty"]

from_value == [is_success |-> TRUE, error_code |-> "NoError", payload |-> "value"]

\* resolve_state_root_hash: a given state root hash as it is; otherwise the
\* state root hash of the header storage has, if it has it.
resolve_state_root_hash(request) ==
    IF request.state_identifier = "StateRootHash" \/ request.header_in_storage THEN Some("state_root_hash") ELSE None

\* let Some(state_root_hash) = resolve_state_root_hash(..) else { return .. }:
\* what each arm of handle_state_request returns for an unresolved identifier.
UnresolvedResponse(qualifier) ==
    IF qualifier = "Balance" THEN new_empty ELSE new_error("RootNotFound")

\* What the contract runtime answers to a query at a root: RootNotFound if
\* its store does not hold the root.
QueryResults(request) ==
    IF request.root_in_store THEN {"Success", "ValueNotFound", "Failure"} ELSE {"RootNotFound"}

TaggedValuesResults(request) ==
    IF request.root_in_store THEN {"Success", "Failure"} ELSE {"RootNotFound"}

BalanceResults(request) ==
    IF request.root_in_store THEN {"Success", "SuccessNoProofs", "KeyNotFound", "Failure"} ELSE {"RootNotFound"}

\* Result<Option<T>, ErrorCode> as a response: the match at the end of the
\* Item and DictionaryItem arms.
ResultResponse(result) ==
    IF result.tag = "Err" THEN new_error(result.error)
    ELSE IF result.tag = "Some" THEN from_value
    ELSE new_empty

OkSome == [tag |-> "Some", error |-> "NoError"]

Err(code) == [tag |-> "Err", error |-> code]

\* get_global_state_item: the QueryResult as Result<Option<..>, ErrorCode>.
get_global_state_item(answer) ==
    IF answer = "Success" THEN OkSome
    ELSE IF answer = "RootNotFound" THEN Err("RootNotFound")
    ELSE IF answer = "ValueNotFound" THEN Err("NotFound")
    ELSE Err("FailedQuery")

\* get_dictionary_item_by_legacy_named_key and _by_named_key: the error for
\* a query of the dictionary's seed URef that did not succeed.
DictionarySeedError(answer) ==
    IF answer \in {"RootNotFound", "ValueNotFound"} THEN Err("DictionaryURefNotFound") ELSE Err("FailedQuery")

\* handle_get_all_items and handle_get_items_by_prefix: the response for a
\* TaggedValuesResult / PrefixedValuesResult.
TaggedValuesResponse(answer) ==
    IF answer = "Success" THEN from_value
    ELSE IF answer = "RootNotFound" THEN new_error("RootNotFound")
    ELSE new_error("InternalError")

\* get_balance: the response for a BalanceResult.
BalanceResponse(answer) ==
    IF answer = "RootNotFound" THEN new_error("RootNotFound")
    ELSE IF answer = "Success" THEN from_value
    ELSE IF answer = "SuccessNoProofs" THEN new_error("InternalError")
    ELSE IF answer = "KeyNotFound" THEN new_error("PurseNotFound")
    ELSE new_error("FailedQuery")

Respond(response) ==
    /\ port_response' = Some(response)
    /\ port_pc' = "responded"

\* handle_state_request up to its first query: the all-items switch of the
\* config, then the state identifier is resolved.
HandleStateRequest ==
    /\ port_pc = "request"
    /\ IF port_request.qualifier = "AllItems" /\ ~port_request.allow_request_get_all_values
       THEN /\ Respond(new_error("FunctionDisabled"))
            /\ UNCHANGED port_resolution
       ELSE IF resolve_state_root_hash(port_request) = None
       THEN /\ Respond(UnresolvedResponse(port_request.qualifier))
            /\ port_resolution' = "unresolved"
       ELSE /\ port_pc' = "query"
            /\ port_resolution' = "resolved"
            /\ UNCHANGED port_response
    /\ UNCHANGED <<port_request, port_answers, exec_vars, calc_vars, net_vars, store_vars, dispatch_vars, map_vars, more_vars>>

\* The query of each arm at the resolved state root hash, and the response
\* to its answer; a dictionary named by an entity's named key is looked up
\* in two queries, of which this is the first.
QueryGlobalState ==
    /\ port_pc = "query"
    /\ LET q == port_request.qualifier
           id == port_request.identifier
       IN \/ /\ q = "Item" \/ (q = "DictionaryItem" /\ id \in {"URef", "DictionaryItem"})
             /\ \E answer \in QueryResults(port_request) :
                   /\ port_answers' = Append(port_answers, answer)
                   /\ Respond(ResultResponse(get_global_state_item(answer)))
          \/ /\ q \in {"AllItems", "ItemsByPrefix"}
             /\ \E answer \in TaggedValuesResults(port_request) :
                   /\ port_answers' = Append(port_answers, answer)
                   /\ Respond(TaggedValuesResponse(answer))
          \/ /\ q = "Balance"
             /\ \E answer \in BalanceResults(port_request) :
                   /\ port_answers' = Append(port_answers, answer)
                   /\ Respond(BalanceResponse(answer))
          \/ \* NamedKeyAddr::new_from_string(entity_addr, dictionary_name) fails
             /\ q = "DictionaryItem" /\ id = "EntityNamedKey"
             /\ Respond(ResultResponse(Err("InternalError")))
             /\ UNCHANGED port_answers
          \/ /\ q = "DictionaryItem" /\ id \in {"AccountNamedKey", "ContractNamedKey", "EntityNamedKey"}
             /\ \E answer \in QueryResults(port_request) :
                   /\ port_answers' = Append(port_answers, answer)
                   /\ IF answer # "Success"
                      THEN Respond(ResultResponse(DictionarySeedError(answer)))
                      ELSE \/ \* the value is of another type, or has no such URef
                              Respond(ResultResponse(Err("DictionaryURefNotFound")))
                           \/ /\ port_pc' = "dictionary_item"
                              /\ UNCHANGED port_response
    /\ UNCHANGED <<port_request, port_resolution, exec_vars, calc_vars, net_vars, store_vars, dispatch_vars, map_vars, more_vars>>

\* The second query of a dictionary named by a named key: the item under
\* the seed URef, get_global_state_item(..).await?
QueryDictionaryItem ==
    /\ port_pc = "dictionary_item"
    /\ \E answer \in QueryResults(port_request) :
          /\ port_answers' = Append(port_answers, answer)
          /\ Respond(ResultResponse(get_global_state_item(answer)))
    /\ UNCHANGED <<port_request, port_resolution, exec_vars, calc_vars, net_vars, store_vars, dispatch_vars, map_vars, more_vars>>

PortIdle ==
    /\ port_request = None
    /\ port_pc = "unused"
    /\ port_resolution = "none"
    /\ port_answers = <<>>
    /\ port_response = None

\* ------------------------------------------------- SDK collections: Map

MaxInserts == 2

\* The values of a byte.
Byte == {0, 1}

\* name.as_bytes() of the maps of a contract.
MapNames == {<<0>>, <<0, 1>>, <<1>>}

\* K: BorshSerialize: the keys of a Map<u8, V> and of a Map<u16, V>.
MapKeys ==
    [type : {"u8"}, value : Byte] \cup [type : {"u16"}, value : 0..(Cardinality(Byte) * Cardinality(Byte) - 1)]

\* V = u8
MapValues == Byte

\* key.serialize(&mut context_key): borsh writes an integer as its bytes,
\* little endian.
serialize(key) ==
    IF key.type = "u8" THEN <<key.value>>
    ELSE <<key.value % Cardinality(Byte), key.value \div Cardinality(Byte)>>

\* borsh::to_vec(value) and borsh::from_slice(&vec)
to_vec(value) == <<value>>

from_slice(vec) == vec[1]

\* context_key.extend(self.name.as_bytes()); key.serialize(&mut context_key)
context_key(name, key) == name \o serialize(key)

\* host::casper_write(Keyspace::Context(..), ..) and host::read_vec(..) on
\* the context storage of the contract.
casper_write(storage, key_bytes, value_bytes) ==
    [k \in (DOMAIN storage) \cup {key_bytes} |-> IF k = key_bytes THEN value_bytes ELSE storage[k]]

read_vec(storage, key_bytes) ==
    IF key_bytes \in DOMAIN storage THEN Some(storage[key_bytes]) ELSE None

\* Map::get
get(storage, name, key) ==
    LET vec == read_vec(storage, context_key(name, key))
    IN IF vec # None THEN Some(from_slice(vec[1])) ELSE None

\* Map::new(name).insert(&key, &value)
MapInsert ==
    /\ inserts < MaxInserts
    /\ \E name \in MapNames, key \in MapKeys, value \in MapValues :
          /\ context' = casper_write(context, context_key(name, key), to_vec(value))
          /\ inserted' = [s \in (DOMAIN inserted) \cup {<<name, key>>} |->
                            IF s = <<name, key>> THEN value ELSE inserted[s]]
    /\ inserts' = inserts + 1
    /\ UNCHANGED <<last_get, exec_vars, calc_vars, net_vars, store_vars, dispatch_vars, port_vars, more_vars>>

\* Map::new(name).get(&key)
MapGet ==
    /\ \E name \in MapNames, key \in MapKeys :
          last_get' = Some([name |-> name, key |-> key, ret |-> get(context, name, key)])
    /\ UNCHANGED <<context, inserted, inserts, exec_vars, calc_vars, net_vars, store_vars, dispatch_vars, port_vars, more_vars>>

MapIdle ==
    /\ context = <<>>
    /\ inserted = <<>>
    /\ inserts = 0
    /\ last_get = None

\* ------------------------------------------ binary port: the component

\* Most connections a config allows, most handlers that finish in a run.
MaxConnections == 2

MaxFinished == 2

\* ComponentState
ComponentStates == {"Uninitialized", "Initializing", "Initialized", "Fatal"}

\* Event
Events == {"Initialize", "AcceptConnection", "HandleRequest"}

\* Config: max_connections and enable_server.
Configs == [max_connections : 0..MaxConnections, enable_server : BOOLEAN]

\* PortBoundComponent::bind(enabled, effect_builder): listen() if the server
\* is enabled, and the state that results.
bind(enabled) ==
    [effects |-> <<>>, server |-> enabled, state |-> "Initialized"]

\* Faulty variant: a component with a fatal error goes on serving.
Handles_fatal_too(state, event) ==
    \/ state = "Initializing" /\ event = "Initialize"
    \/ state \in {"Initialized", "Fatal"} /\ event # "Initialize"

\* The arms of the match on (&self.state, event) that do not only log.
Handles(state, event) ==
    \/ state = "Initializing" /\ event = "Initialize"
    \/ state = "Initialized" /\ event # "Initialize"

\* Faulty variant: a permit is taken whether or not one is left.
try_acquire_owned_unlimited(permits) == TRUE

\* Arc::clone(&self.connection_limit).try_acquire_owned().is_ok()
try_acquire_owned(permits) == permits > 0

\* What handling the event did, next to the event.
Handled(event, effs, spawned) ==
    Some([event |-> event, state |-> component_state, state_after |-> component_state',
          effects |-> effs, spawned |-> spawned,
          permits |-> connection_limit, handlers |-> handlers, server_after |-> server'])

\* Component::handle_event
HandleEvent ==
    /\ \E event \in Events :
          IF ~Handles(component_state, event)
          THEN /\ UNCHANGED <<component_state, connection_limit, handlers, server>>
               /\ last_event' = Handled(event, <<>>, FALSE)
          ELSE IF event = "Initialize"
          THEN /\ component_state' = bind(config.enable_server).state
               /\ server' = (server \/ bind(config.enable_server).server)
               /\ UNCHANGED <<connection_limit, handlers>>
               /\ last_event' = Handled(event, bind(config.enable_server).effects, FALSE)
          ELSE IF event = "AcceptConnection"
          THEN /\ UNCHANGED <<component_state, server>>
               /\ IF try_acquire_owned(connection_limit)
                  THEN /\ connection_limit' = connection_limit - 1
                       /\ handlers' = handlers + 1
                       /\ last_event' = Handled(event, <<"responder.respond(())">>, TRUE)
                  ELSE /\ UNCHANGED <<connection_limit, handlers>>
                       /\ last_event' = Handled(event, <<"responder.respond(())">>, FALSE)
          ELSE /\ UNCHANGED <<component_state, connection_limit, handlers, server>>
               /\ last_event' = Handled(event, <<"handle_request">>, FALSE)
    /\ UNCHANGED <<config, finished, old_vars, connection_vars, request_vars, bid_vars>>

\* InitializedComponent::set_state, called by the reactor.
SetState ==
    /\ \E new_state \in ComponentStates :
          /\ new_state # component_state
          /\ component_state' = new_state
    /\ UNCHANGED <<connection_limit, handlers, server, config, finished, last_event, old_vars, connection_vars, request_vars, bid_vars>>

\* A handle_client task returns: its _permit is dropped.
HandleClientReturns ==
    /\ handlers > 0
    /\ finished < MaxFinished
    /\ handlers' = handlers - 1
    /\ connection_limit' = connection_limit + 1
    /\ finished' = finished + 1
    /\ UNCHANGED <<component_state, server, config, last_event, old_vars, connection_vars, request_vars, bid_vars>>

ComponentIdle ==
    /\ component_state = "Uninitialized"
    /\ connection_limit = 0
    /\ handlers = 0
    /\ server = FALSE
    /\ config = [max_connections |-> 0, enable_server |-> FALSE]
    /\ finished = 0
    /\ last_event = None

\* ------------------------------------- binary port: a client connection

\* Most payloads a client sends, most requests the rate limiter lets through.
MaxPayloads == 2

MaxQuota == 1

\* A payload by what the checks find in it: fewer bytes than a u16, the
\* binary request version, a header that parses, the header's id, its
\* protocol version compatible, a known type tag, a body that parses.
Payloads ==
    [short : BOOLEAN, binary_version_ok : BOOLEAN, header_ok : BOOLEAN, id : {1, 2},
     compatible : BOOLEAN, tag_ok : BOOLEAN, body_ok : BOOLEAN]

\* payload.is_empty()
EmptyPayload == <<>>

\* extract_header: the error code, or "Ok" with the header.
extract_header(bytes) ==
    IF bytes.short THEN "MalformedBinaryVersion"
    ELSE IF ~bytes.binary_version_ok THEN "BinaryProtocolVersionMismatch"
    ELSE IF ~bytes.header_ok THEN "MalformedBinaryRequestHeader"
    ELSE "Ok"

\* rate_limiter.lock().await.throttle()
throttle(left) == IF left > 0 THEN "Ready" ELSE "Throttled"

\* Faulty variant: the protocol version is checked before the rate limiter
\* is asked.
handle_payload_version_first(bytes, limiter) ==
    IF extract_header(bytes) # "Ok" THEN [response |-> extract_header(bytes), id |-> 0, forwarded |-> FALSE]
    ELSE IF ~bytes.compatible THEN [response |-> "UnsupportedProtocolVersion", id |-> bytes.id, forwarded |-> FALSE]
    ELSE IF limiter = "Throttled" THEN [response |-> "RequestThrottled", id |-> bytes.id, forwarded |-> FALSE]
    ELSE IF ~bytes.tag_ok THEN [response |-> "UnsupportedRequest", id |-> bytes.id, forwarded |-> FALSE]
    ELSE IF ~bytes.body_ok THEN [response |-> "MalformedBinaryRequest", id |-> bytes.id, forwarded |-> FALSE]
    ELSE [response |-> "none", id |-> bytes.id, forwarded |-> TRUE]

\* handle_payload up to the request it makes of the component: the error
\* response and the request id it returns, or the request forwarded.
handle_payload(bytes, limiter) ==
    IF extract_header(bytes) # "Ok" THEN [response |-> extract_header(bytes), id |-> 0, forwarded |-> FALSE]
    ELSE IF limiter = "Throttled" THEN [response |-> "RequestThrottled", id |-> bytes.id, forwarded |-> FALSE]
    ELSE IF ~bytes.compatible THEN [response |-> "UnsupportedProtocolVersion", id |-> bytes.id, forwarded |-> FALSE]
    ELSE IF ~bytes.tag_ok THEN [response |-> "UnsupportedRequest", id |-> bytes.id, forwarded |-> FALSE]
    ELSE IF ~bytes.body_ok THEN [response |-> "MalformedBinaryRequest", id |-> bytes.id, forwarded |-> FALSE]
    ELSE [response |-> "none", id |-> bytes.id, forwarded |-> TRUE]

\* Faulty variant: the message goes out without the request's payload.
BinaryResponseAndRequestNew_no_payload(data, original_request_payload, original_request_id) ==
    [response |-> data, original_request_payload |-> <<>>, original_request_id |-> original_request_id]

\* BinaryResponseAndRequest::new
BinaryResponseAndRequestNew(data, original_request_payload, original_request_id) ==
    [response |-> data, original_request_payload |-> <<original_request_payload>>, original_request_id |-> original_request_id]

LoopReturns(result) ==
    /\ loop_pc' = "returned"
    /\ loop_result' = Some(result)

\* framed.next() in the select!: the peer has closed the stream, the codec
\* fails, or a message arrives, with or without payload.
ReadPayload ==
    /\ loop_pc = "select"
    /\ \/ /\ LoopReturns("Ok")
          /\ UNCHANGED <<payload, received>>
       \/ /\ LoopReturns("FramingError")
          /\ UNCHANGED <<payload, received>>
       \/ /\ LoopReturns("NoPayload")
          /\ payload' = EmptyPayload
          /\ UNCHANGED received
       \/ /\ received < MaxPayloads
          /\ \E bytes \in Payloads : payload' = Some(bytes)
          /\ received' = received + 1
          /\ loop_pc' = "handle_payload"
          /\ UNCHANGED loop_result
    /\ UNCHANGED <<quota, handled, sent, last_sent, old_vars, component_vars, request_vars, bid_vars>>

\* cancellation_token.cancelled() in the select!
Cancelled ==
    /\ loop_pc = "select"
    /\ LoopReturns("Ok")
    /\ UNCHANGED <<payload, quota, handled, received, sent, last_sent, old_vars, component_vars, request_vars, bid_vars>>

\* handle_payload(effect_builder, payload, version, rate_limiter), up to its
\* return or to the HandleRequest event it makes.
HandlePayload ==
    /\ loop_pc = "handle_payload"
    /\ LET asked == extract_header(payload[1]) = "Ok"
           did == handle_payload(payload[1], throttle(quota))
       IN /\ quota' = IF asked /\ throttle(quota) = "Ready" THEN quota - 1 ELSE quota
          /\ handled' = Some([payload |-> payload[1], quota |-> quota, throttle_called |-> asked,
                              response |-> did.response, id |-> did.id, forwarded |-> did.forwarded])
          /\ loop_pc' = IF did.forwarded THEN "make_request" ELSE "send"
    /\ UNCHANGED <<payload, received, sent, last_sent, loop_result, old_vars, component_vars, request_vars, bid_vars>>

\* The component answers the HandleRequest event.
RequestAnswered ==
    /\ loop_pc = "make_request"
    /\ handled' = Some([handled[1] EXCEPT !.response = "ComponentResponse"])
    /\ loop_pc' = "send"
    /\ UNCHANGED <<payload, quota, received, sent, last_sent, loop_result, old_vars, component_vars, request_vars, bid_vars>>

\* framed.send(BinaryMessage::new(BinaryResponseAndRequest::new(..).to_bytes()?)).await?
SendResponse ==
    /\ loop_pc = "send"
    /\ \/ /\ LoopReturns("SendError")
          /\ UNCHANGED <<sent, last_sent>>
       \/ /\ sent' = sent + 1
          /\ last_sent' = Some(BinaryResponseAndRequestNew(handled[1].response, payload[1], handled[1].id))
          /\ loop_pc' = "select"
          /\ UNCHANGED loop_result
    /\ UNCHANGED <<payload, quota, handled, received, old_vars, component_vars, request_vars, bid_vars>>

ConnectionIdle ==
    /\ loop_pc = "unused"
    /\ payload = None
    /\ quota = 0
    /\ handled = None
    /\ received = 0
    /\ sent = 0
    /\ last_sent = None
    /\ loop_result = None

\* ------------------------------------------ binary port: handle_request

\* BinaryRequest, as far as the config's switches go, with the switches:
\* the state request is the one for all items of a key tag.
BinaryRequests ==
    [kind : {"TryAcceptTransaction", "TrySpeculativeExec", "AllItems", "Trie", "KeepAliveRequest"},
     allow_request_speculative_exec : BOOLEAN, allow_request_get_all_values : BOOLEAN,
     allow_request_get_trie : BOOLEAN]

\* Faulty variant: only the speculative execution can be switched off.
FunctionDisabled_speculative_exec_only(r) ==
    r.kind = "TrySpeculativeExec" /\ ~r.allow_request_speculative_exec

\* if !config.allow_request_speculative_exec, if !config.allow_request_get_all_values
\* and if !config.allow_request_get_trie, each in the arm of its request.
FunctionDisabled(r) ==
    \/ r.kind = "TrySpeculativeExec" /\ ~r.allow_request_speculative_exec
    \/ r.kind = "AllItems" /\ ~r.allow_request_get_all_values
    \/ r.kind = "Trie" /\ ~r.allow_request_get_trie

\* Faulty variant: the execution follows whatever the acceptor answered.
ReturnsAcceptanceResponse_never(response) == FALSE

\* if !response.is_success() { return response; }
ReturnsAcceptanceResponse(response) == ~response.is_success

RequestResponds(response) ==
    /\ req_response' = Some(response)
    /\ req_pc' = "responded"

\* handle_request up to the first request it makes of another component.
HandleRequest ==
    /\ req_pc = "request"
    /\ IF FunctionDisabled(req)
       THEN /\ RequestResponds(new_error("FunctionDisabled"))
            /\ UNCHANGED issued
       ELSE IF req.kind = "KeepAliveRequest"
       THEN /\ RequestResponds(from_value)
            /\ UNCHANGED issued
       ELSE IF req.kind \in {"TryAcceptTransaction", "TrySpeculativeExec"}
       THEN /\ issued' = Append(issued, "try_accept_transaction")
            /\ req_pc' = "try_accept_transaction"
            /\ UNCHANGED req_response
       ELSE /\ issued' = Append(issued, IF req.kind = "Trie" THEN "get_trie" ELSE "get_tagged_values")
            /\ req_pc' = "get"
            /\ UNCHANGED req_response
    /\ UNCHANGED <<req, accepted, old_vars, component_vars, connection_vars, bid_vars>>

\* try_accept_transaction: the acceptor's answer as a response; for a
\* speculative execution the handler goes on only if it is a success.
AcceptAnswered ==
    /\ req_pc = "try_accept_transaction"
    /\ \E response \in {new_empty, new_error("InvalidTransaction")} :
          /\ accepted' = Some(response.is_success)
          /\ IF req.kind = "TryAcceptTransaction" \/ ReturnsAcceptanceResponse(response)
             THEN RequestResponds(response)
             ELSE /\ req_pc' = "try_speculative_execution"
                  /\ UNCHANGED req_response
    /\ UNCHANGED <<req, issued, old_vars, component_vars, connection_vars, bid_vars>>

\* try_speculative_execution: the highest complete block header, and with
\* it the request to execute.
SpeculativeExecution ==
    /\ req_pc = "try_speculative_execution"
    /\ \/ /\ issued' = Append(issued, "get_highest_complete_block_header_from_storage")
          /\ RequestResponds(new_error("NoCompleteBlocks"))
       \/ /\ issued' = issued \o <<"get_highest_complete_block_header_from_storage", "speculatively_execute">>
          /\ req_pc' = "speculatively_execute"
          /\ UNCHANGED req_response
    /\ UNCHANGED <<req, accepted, old_vars, component_vars, connection_vars, bid_vars>>

\* The contract runtime answers: a speculative execution result, a trie or
\* the tagged values, or an error.
ResponseReceived ==
    /\ req_pc \in {"speculatively_execute", "get"}
    /\ \E response \in {from_value, new_error(IF req_pc = "get" THEN "InternalError" ELSE "InvalidTransaction")} :
          RequestResponds(response)
    /\ UNCHANGED <<req, issued, accepted, old_vars, component_vars, connection_vars, bid_vars>>

RequestIdle ==
    /\ req = None
    /\ req_pc = "unused"
    /\ issued = <<>>
    /\ accepted = None
    /\ req_response = None

\* --------------------------------------- DelegatorBid::decrease_stake

\* Most motes staked, and the last era end timestamp asked about.
MaxStake == 3

MaxTimestamp == 1

\* DelegatorBid: the staked amount and the vesting schedule, if any, whose
\* locked amounts are not yet initialised or give an amount for every
\* timestamp, any table included.
DelegatorBids ==
    [staked_amount : 0..MaxStake,
     vesting_schedule : OptionOf([locked_amounts : OptionOf([0..MaxTimestamp -> 0..MaxStake])])]

\* VestingSchedule::locked_amount(timestamp_millis): None before the locked
\* amounts are initialised, then the amount locked at that time.
locked_amount(vesting_schedule, timestamp) ==
    IF vesting_schedule.locked_amounts = None THEN None
    ELSE Some(vesting_schedule.locked_amounts[1][timestamp])

\* Faulty variant: a schedule not yet initialised locks nothing.
decrease_stake_uninitialised_unlocked(self, amount, era_end_timestamp_millis) ==
    LET updated_staked_amount == checked_sub(self.staked_amount, amount)
        locked == IF self.vesting_schedule = None THEN Some(0)
                  ELSE locked_amount(self.vesting_schedule[1], era_end_timestamp_millis)
    IN IF updated_staked_amount = None
       THEN [self |-> self, tag |-> "Err", value |-> 0, error |-> "InvalidAmount"]
       ELSE IF locked # None /\ updated_staked_amount[1] < locked[1]
       THEN [self |-> self, tag |-> "Err", value |-> 0, error |-> "DelegatorFundsLocked"]
       ELSE [self |-> [self EXCEPT !.staked_amount = updated_staked_amount[1]],
             tag |-> "Ok", value |-> updated_staked_amount[1], error |-> "none"]

\* DelegatorBid::decrease_stake: the bid after the call, and the result.
decrease_stake(self, amount, era_end_timestamp_millis) ==
    LET updated_staked_amount == checked_sub(self.staked_amount, amount)
    IN IF updated_staked_amount = None
       THEN [self |-> self, tag |-> "Err", value |-> 0, error |-> "InvalidAmount"]
       ELSE IF self.vesting_schedule = None
       THEN [self |-> [self EXCEPT !.staked_amount = updated_staked_amount[1]],
             tag |-> "Ok", value |-> updated_staked_amount[1], error |-> "none"]
       ELSE LET locked == locked_amount(self.vesting_schedule[1], era_end_timestamp_millis)
            IN IF locked # None /\ updated_staked_amount[1] < locked[1]
               THEN [self |-> self, tag |-> "Err", value |-> 0, error |-> "DelegatorFundsLocked"]
               ELSE IF locked = None
               THEN [self |-> self, tag |-> "Err", value |-> 0, error |-> "DelegatorFundsLocked"]
               ELSE [self |-> [self EXCEPT !.staked_amount = updated_staked_amount[1]],
                     tag |-> "Ok", value |-> updated_staked_amount[1], error |-> "none"]

\* bid.decrease_stake(amount, era_end_timestamp_millis)
DecreaseStake ==
    /\ \E amount \in 0..(MaxStake + 1), timestamp \in 0..MaxTimestamp :
          LET call == decrease_stake(bid, amount, timestamp)
              locked == IF bid.vesting_schedule = None THEN None
                        ELSE locked_amount(bid.vesting_schedule[1], timestamp)
          IN /\ bid' = call.self
             /\ last_decrease' = Some([self |-> bid, amount |-> amount, timestamp |-> timestamp, locked |-> locked,
                                       tag |-> call.tag, value |-> call.value, error |-> call.error])
             /\ locked_at_success' = IF call.tag = "Ok" THEN locked ELSE locked_at_success
    /\ UNCHANGED <<old_vars, component_vars, connection_vars, request_vars>>

BidIdle ==
    /\ bid = [staked_amount |-> 0, vesting_schedule |-> None]
    /\ last_decrease = None
    /\ locked_at_success = None

MoreIdle == ComponentIdle /\ ConnectionIdle /\ RequestIdle /\ BidIdle

\* Every component other than the block executor at rest.
AuxIdle == NetIdle /\ StoreIdle /\ DispatchIdle /\ PortIdle /\ MapIdle /\ MoreIdle

\* ------------------------------------------------------ specifications

\* The purge configurations: (activation_point, activation_point_block_height,
\* purge_batch_size).
AllPurgeConfigs ==
    ({ActivationGenesis} \cup {ActivationEraId(e) : e \in 0..MaxEra}) \X OptionOf(0..MaxHeight) \X (0..MaxBatch)

\* A node that has nothing to purge, and one purging the era before the
\* activation era 1, activated at height 0, in batches of 1.
SomePurgeConfigs ==
    {<<ActivationGenesis, None, 0>>, <<ActivationEraId(1), Some(0), 1>>}

\* metrics: Option<Arc<Metrics>>
MetricsSinks == OptionOf({"metrics"})

ArgsOf(sinks, blocks, pre_states, deploys, transfers, purge_configs) ==
    {[metrics |-> m, finalized_block |-> b, execution_pre_state |-> p, deploys |-> d, transfers |-> t,
      activation_point |-> c[1], activation_point_block_height |-> c[2], purge_batch_size |-> c[3]] :
        m \in sinks, b \in blocks, p \in pre_states, d \in deploys, t \in transfers, c \in purge_configs}

\* One call of execute_finalized_block on any block of deploys that succeed or
\* fail and of transfers that succeed, without a metrics sink.
Init ==
    /\ ExecInit(ArgsOf({None}, FinalizedBlocks, ExecutionPreStates({FullPreStateRoot}), SeqsUpTo(DeployKinds, MaxDeploys), SeqsUpTo({"add"}, MaxTransfers), SomePurgeConfigs))
    /\ CalcIdle
    /\ AuxIdle

Next ==
    \/ Call
    \/ ExecuteDeploy
    \/ CommitStep
    \/ WriteScratch
    \/ GetEraValidators
    \/ FlushEnvironment
    \/ Purge
    \/ Assemble

Spec == Init /\ [][Next]_vars

\* One call of execute_finalized_block under any purge configuration, on a
\* block of at most one deploy, with or without an era report, without a
\* metrics sink.
PurgingBlocks ==
    {b \in FinalizedBlocks :
        b.era_report \in {None, Some([equivocators |-> <<"alice">>, rewards |-> [v \in Validators |-> 1], inactive_validators |-> <<>>])}}

InitPurging ==
    /\ ExecInit(ArgsOf({None}, PurgingBlocks, ExecutionPreStates(PreStateRoots), {<<>>, <<"add">>}, {<<>>}, AllPurgeConfigs))
    /\ CalcIdle
    /\ AuxIdle

SpecPurging == InitPurging /\ [][Next]_vars

\* One call of execute_finalized_block with a metrics sink and without one,
\* on a block with or without an era report.
InitMetrics ==
    /\ ExecInit(ArgsOf(MetricsSinks, PurgingBlocks, ExecutionPreStates({FullPreStateRoot}), SeqsUpTo(DeployKinds, MaxDeploys), SeqsUpTo(DeployKinds, MaxTransfers), SomePurgeConfigs))
    /\ CalcIdle
    /\ AuxIdle

SpecMetrics == InitMetrics /\ [][Next]_vars

\* Largest value of the counter key at a pre-state root.
MaxCounter == 2

\* The states a block of increments may be executed on: the counter at any
\* value up to MaxCounter.
CounterPreStateRoots == {RootOf(v, 0..(MaxEra - 1), {}) : v \in 0..MaxCounter}

\* One call of execute_finalized_block on a block of transactions that each
\* add 1 to the counter, on a pre-state with any value of the counter.
InitCounter ==
    /\ ExecInit(ArgsOf({None}, PurgingBlocks, ExecutionPreStates(CounterPreStateRoots), SeqsUpTo({"add"}, MaxDeploys + 1), SeqsUpTo({"add"}, MaxTransfers), SomePurgeConfigs))
    /\ CalcIdle
    /\ AuxIdle

SpecCounter == InitCounter /\ [][Next]_vars

\* One call of calculate_purge_eras, on any arguments.
IdleArgs ==
    ArgsOf({None}, {[height |-> 0, era_id |-> 1, era_report |-> None]},
           {[pre_state_root_hash |-> RootOf(0, {}, {}), next_block_height |-> 0]},
           {<<>>}, {<<>>}, {<<ActivationGenesis, None, 0>>})

InitCalc ==
    /\ ExecInit(IdleArgs)
    /\ calc_args \in CalcArgs
    /\ calc_pc = "call"
    /\ calc_result = None
    /\ AuxIdle

NextCalc == CalculatePurgeEras

SpecCalc == InitCalc /\ [][NextCalc]_vars

\* A network from genesis, one switch block after the other.
InitNetwork ==
    /\ ExecInit(IdleArgs)
    /\ CalcIdle
    /\ AuxIdle

NextNetwork == SwitchBlock

SpecNetwork == InitNetwork /\ [][NextNetwork]_vars

\* A running network: an era that can end does end (the nodes settle on
\* every era in turn).
SpecNetworkLive == SpecNetwork /\ WF_vars(SwitchBlock)

\* The roots a store is started with: the empty one, and one with a value
\* under every key.
SomeStoreRoots == {EmptyRoot, [k \in StoreKeys |-> Some(1)]}

\* A store with one root, read by another thread while blocks are committed,
\* scratch states flushed and keys purged.
InitStore ==
    /\ ExecInit(IdleArgs)
    /\ CalcIdle
    /\ NetIdle
    /\ \E r \in SomeStoreRoots : tries = [x \in {r} |-> x]
    /\ readers = <<>>
    /\ last_checkout = None
    /\ commit_args = None
    /\ commit_log = <<>>
    /\ DispatchIdle
    /\ PortIdle
    /\ MapIdle
    /\ MoreIdle

NextStore ==
    \/ Checkout
    \/ TrackingCopy
    \/ Read
    \/ CommitEffects
    \/ CommitValues

SpecStore == InitStore /\ [][NextStore]_vars

\* A store with one root, and a client with any two effect sets to commit.
InitCommit ==
    /\ ExecInit(IdleArgs)
    /\ CalcIdle
    /\ NetIdle
    /\ commit_args \in {Some([initial |-> r, A |-> A, B |-> B]) : r \in StoreRoots, A \in EffectSets, B \in EffectSets}
    /\ tries = [x \in {commit_args[1].initial} |-> x]
    /\ readers = <<>>
    /\ last_checkout = None
    /\ commit_log = <<>>
    /\ DispatchIdle
    /\ PortIdle
    /\ MapIdle
    /\ MoreIdle

NextCommit == ClientCommit

SpecCommit == InitCommit /\ [][NextCommit]_vars

\* test_system_dispatcher: a tracking copy of the root after genesis, any
\* system contract calls dispatched on it, then its effects committed.
InitDispatch ==
    /\ ExecInit(IdleArgs)
    /\ CalcIdle
    /\ NetIdle
    /\ StoreIdle
    /\ tracking_copy = tracking_copy_of([tag |-> "Reader", state_hash |-> EmptyRoot]).tracking_copy
    /\ address_generator = 0
    /\ dispatch_log = <<>>
    /\ post_root_hash = None
    /\ PortIdle
    /\ MapIdle
    /\ MoreIdle

NextDispatch ==
    \/ DispatchSystemContract
    \/ CommitTrackingCopy

SpecDispatch == InitDispatch /\ [][NextDispatch]_vars

\* One global state request handled by the binary port, of any kind, on a
\* node that has or has not the header and the state root it is about.
InitPort ==
    /\ ExecInit(IdleArgs)
    /\ CalcIdle
    /\ NetIdle /\ StoreIdle /\ DispatchIdle /\ MapIdle /\ MoreIdle
    /\ port_request \in GlobalStateRequests
    /\ port_pc = "request"
    /\ port_resolution = "none"
    /\ port_answers = <<>>
    /\ port_response = None

NextPort ==
    \/ HandleStateRequest
    \/ QueryGlobalState
    \/ QueryDictionaryItem

SpecPort == InitPort /\ [][NextPort]_vars

\* A contract using maps: nothing stored yet.
InitMap ==
    /\ ExecInit(IdleArgs)
    /\ CalcIdle
    /\ AuxIdle

NextMap ==
    \/ MapInsert
    \/ MapGet

SpecMap == InitMap /\ [][NextMap]_vars

\* BinaryPort::new(config, ..): Uninitialized, a semaphore of
\* max_connections permits, no server yet.
InitComponent ==
    /\ ExecInit(IdleArgs)
    /\ CalcIdle
    /\ NetIdle /\ StoreIdle /\ DispatchIdle /\ PortIdle /\ MapIdle /\ ConnectionIdle /\ RequestIdle /\ BidIdle
    /\ config \in Configs
    /\ component_state = "Uninitialized"
    /\ connection_limit = config.max_connections
    /\ handlers = 0
    /\ server = FALSE
    /\ finished = 0
    /\ last_event = None

NextComponent ==
    \/ HandleEvent
    \/ SetState
    \/ HandleClientReturns

SpecComponent == InitComponent /\ [][NextComponent]_vars

\* handle_client_loop on a connection just accepted, with some quota left in
\* the rate limiter.
InitConnection ==
    /\ ExecInit(IdleArgs)
    /\ CalcIdle
    /\ NetIdle /\ StoreIdle /\ DispatchIdle /\ PortIdle /\ MapIdle /\ ComponentIdle /\ RequestIdle /\ BidIdle
    /\ loop_pc = "select"
    /\ payload = None
    /\ quota \in 0..MaxQuota
    /\ handled = None
    /\ received = 0
    /\ sent = 0
    /\ last_sent = None
    /\ loop_result = None

NextConnection ==
    \/ ReadPayload
    \/ Cancelled
    \/ HandlePayload
    \/ RequestAnswered
    \/ SendResponse

SpecConnection == InitConnection /\ [][NextConnection]_vars

\* A request handed to handle_request, on a node with any config.
InitRequest ==
    /\ ExecInit(IdleArgs)
    /\ CalcIdle
    /\ NetIdle /\ StoreIdle /\ DispatchIdle /\ PortIdle /\ MapIdle /\ ComponentIdle /\ ConnectionIdle /\ BidIdle
    /\ req \in BinaryRequests
    /\ req_pc = "request"
    /\ issued = <<>>
    /\ accepted = None
    /\ req_response = None

NextRequest ==
    \/ HandleRequest
    \/ AcceptAnswered
    \/ SpeculativeExecution
    \/ ResponseReceived

SpecRequest == InitRequest /\ [][NextRequest]_vars

\* A delegator's bid, unlocked or with a vesting schedule whose locked
\* amounts are initialised or not.
InitBid ==
    /\ ExecInit(IdleArgs)
    /\ CalcIdle
    /\ NetIdle /\ StoreIdle /\ DispatchIdle /\ PortIdle /\ MapIdle
    /\ ComponentIdle /\ ConnectionIdle /\ RequestIdle
    /\ bid \in DelegatorBids
    /\ last_decrease = None
    /\ locked_at_success = None

NextBid == DecreaseStake

SpecBid == InitBid /\ [][NextBid]_vars

\* ============================================================ claims

\* The store before the call: the pre-state root alone.
DurableBefore == {args.execution_pre_state.pre_state_root_hash}

\* The deploys of the block in execution order, deploys before transfers.
AllDeploys == DeployList(args.deploys, "deploy") \o DeployList(args.transfers, "transfer")

\* What the journal of a deploy adds to the counter.
AddedBy(deploy) == IF deploy.kind = "add" THEN 1 ELSE 2

\* What the first k deploys of the block add to the counter.
RECURSIVE AddedByFirst(_)
AddedByFirst(k) == IF k = 0 THEN 0 ELSE AddedByFirst(k - 1) + AddedBy(AllDeploys[k])

\* The engine calls of one kind, in order.
OpsNamed(name) == SelectSeq(ops, LAMBDA o : o.op = name)

\* The positions in ops of the calls of one kind.
PositionsOf(name) == {i \in DOMAIN ops : ops[i].op = name}

\* C1: when finalized_block.height differs from next_block_height the call
\* returns WrongBlockHeight, having made no engine call at all: nothing was
\* executed, committed to the scratch state, stepped, written or purged.
C1_WrongHeightRejected ==
    (pc # "call" /\ args.finalized_block.height # args.execution_pre_state.next_block_height)
        => /\ pc = "returned" /\ ret = "Err" /\ error = "WrongBlockHeight"
           /\ ops = <<>>
           /\ execution_results = <<>>
           /\ step_request = None
           /\ scratch = EmptyScratch
           /\ durable = DurableBefore

\* C1 witness: a block with deploys and an era report, rejected for its height.
C1_Witness ==
    /\ ret = "Err" /\ error = "WrongBlockHeight"
    /\ args.deploys # <<>>
    /\ args.finalized_block.era_report # None

\* The errors raised before the durable write, or by it.
ErrorsUpToWrite ==
    {"WrongBlockHeight", "ExecuteError", "MoreThanOneExecutionResult", "CommitError", "StepError", "WriteScratchError"}

\* The roots the call's successful durable write and purge produced.
RootsWritten ==
    {o.ret[1] : o \in {x \in Range(ops) : x.op = "write_scratch_to_db" /\ x.ret # None}}
    \cup {o.ret[1].post_state_hash : o \in {x \in Range(ops) : x.op = "commit_purge" /\ x.ret # None}}

\* C2 as stated: whenever the call returns an error, the durable store is the
\* same as before the call.
C2_AnyErrorLeavesStore == ret = "Err" => durable = DurableBefore

\* C2 amended: an error raised before or by the durable write leaves the store
\* as it was; an error raised after it (validator query, flush, purge, block
\* assembly) leaves exactly the roots written by write_scratch_to_db and by a
\* successful purge in the store.
C2_ErrorBeforeWriteLeavesStore ==
    ret = "Err" =>
        /\ error \in ErrorsUpToWrite => (durable = DurableBefore /\ PositionsOf("write_scratch_to_db") \subseteq {Len(ops)})
        /\ error \notin ErrorsUpToWrite => (durable = DurableBefore \cup RootsWritten /\ OpsNamed("write_scratch_to_db") # <<>>)

\* C2 witness: the step fails after two deploys were committed to the scratch
\* state.
C2_Witness ==
    /\ ret = "Err" /\ error = "StepError"
    /\ Len(execution_results) >= 2

\* C3: the first deploy is executed on the pre-state root and every later one
\* on the root the commit of the one before it returned, and the k-th deploy
\* reads the counter as the first k-1 deploys left it.
C3_ExecutedOnPreviousCommit ==
    LET executes == OpsNamed("run_execute")
        commits == SelectSeq(ops, LAMBDA o : o.op = "apply_effect" /\ o.ret # None)
    IN /\ \A k \in DOMAIN executes :
             /\ k - 1 \in DOMAIN commits \/ k = 1
             /\ executes[k].root = IF k = 1 THEN args.execution_pre_state.pre_state_root_hash ELSE commits[k - 1].ret[1]
       /\ \A k \in DOMAIN execution_results :
             execution_results[k].observed = args.execution_pre_state.pre_state_root_hash.val + AddedByFirst(k - 1)

\* C3 witness: a block of three deploys, the first one a failure, executed.
C3_Witness ==
    /\ ret = "Ok"
    /\ Len(execution_results) = 3
    /\ execution_results[1].result = "Failure"
    /\ execution_results[3].observed = 3

\* C4: in a successful run there is one write_scratch_to_db, on the durable
\* engine state, made after every apply_effect and after the commit_step of a
\* block with an era report; all of those are made on the scratch state, and
\* the root written holds every deploy's effect and the step's evictions.
C4_OneDurableWriteAfterCommits ==
    ret = "Ok" =>
        /\ Cardinality(PositionsOf("write_scratch_to_db")) = 1
        /\ \A w \in PositionsOf("write_scratch_to_db") :
              /\ ops[w].on = "engine_state"
              /\ \A i \in PositionsOf("run_execute") \cup PositionsOf("apply_effect") \cup PositionsOf("commit_step") :
                    i < w /\ ops[i].on = "scratch"
              /\ ops[w].ret[1].val = args.execution_pre_state.pre_state_root_hash.val + AddedByFirst(Len(AllDeploys))
              /\ args.finalized_block.era_report # None =>
                    ops[w].ret[1].evicted = Range(evict_items(args.finalized_block.era_report[1]))
        /\ Cardinality(PositionsOf("apply_effect")) = Len(AllDeploys)
        /\ Cardinality(PositionsOf("commit_step")) = IF args.finalized_block.era_report = None THEN 0 ELSE 1
        /\ durable \ DurableBefore \subseteq RootsWritten

\* C4 witness: a switch block of two deploys and a transfer, executed.
C4_Witness ==
    /\ ret = "Ok"
    /\ Len(execution_results) = 3
    /\ args.finalized_block.era_report # None
    /\ args.finalized_block.era_report[1].equivocators # <<>>

\* How often v is listed in seq.
CountIn(seq, v) == Cardinality({i \in DOMAIN seq : seq[i] = v})

\* C5: the evict_items of a step request hold each validator that is inactive
\* or an equivocator, and each of them exactly once, also one listed in both
\* sets of the era report.
C5_EvictedExactlyOnce ==
    step_request # None =>
        LET report == args.finalized_block.era_report[1]
            items == step_request[1].evict_items
        IN /\ Range(items) = Range(report.inactive_validators) \cup Range(report.equivocators)
           /\ \A v \in Range(items) : CountIn(items, v) = 1

\* The keys handed to commit_purge by the call, if any.
PurgedKeys ==
    IF OpsNamed("commit_purge") = <<>> THEN <<>> ELSE OpsNamed("commit_purge")[1].root[2]

\* C6: a block at height 0 executed with an era-id activation point and a
\* known activation block height neither panics nor wraps on height - 1: it
\* has no previous block height, and nothing is purged.
C6_HeightZeroGuarded ==
    (args.finalized_block.height = 0 /\ PurgeArm)
        => /\ ret # "panic"
           /\ previous_block_height = None
           /\ PurgedKeys = <<>>

\* The EraInfo keys of chunk number i of [0, n) cut into chunks of b eras.
ChunkKeys(n, b, i) ==
    LET lo == i * b
        hi == Min(i * b + b, n)
    IN IF i >= 0 /\ lo < hi THEN [j \in 1..(hi - lo) |-> EraInfo(lo + j - 1)] ELSE <<>>

\* ChunkKeys, or nothing when the end of the chunk does not fit a u64.
ChunkKeysChecked(n, b, i) ==
    IF i >= 0 /\ i * b + b <= U64_MAX THEN ChunkKeys(n, b, i) ELSE <<>>

\* C7 as stated, for the blocks above height 0 (where height - 1 is the
\* previous block's height): the block at height h purges chunk number h - a.
C7_ChunkOfBlockHeight ==
    (previous_block_height # None /\ args.finalized_block.height > 0) =>
        PurgedKeys = ChunkKeys(args.activation_point[2], args.purge_batch_size,
                               args.finalized_block.height - args.activation_point_block_height[1])

\* C7 amended: the height handed to calculate_purge_eras is the previous
\* block's, h - 1 as a u64, so the block at height h purges chunk number
\* (h - 1) - a: chunk 0 is purged by the block at height a + 1, and the block
\* at the activation height a purges nothing.
C7_ChunkOfPreviousBlockHeight ==
    previous_block_height # None =>
        LET previous == (args.finalized_block.height - 1) % (U64_MAX + 1)
        IN /\ previous_block_height = Some(previous)
           /\ PurgedKeys = ChunkKeysChecked(args.activation_point[2], args.purge_batch_size,
                                            previous - args.activation_point_block_height[1])
           /\ args.finalized_block.height = args.activation_point_block_height[1] /\ args.finalized_block.height > 0
                 => PurgedKeys = <<>>

\* C7 witness: with batches of one era, the block two above the activation
\* height has purged chunk 1.
C7_Witness ==
    /\ ret = "Ok"
    /\ args.purge_batch_size = 1
    /\ args.activation_point_block_height # None
    /\ args.finalized_block.height = args.activation_point_block_height[1] + 2
    /\ PurgedKeys = <<EraInfo(1)>>

\* The result calculate_purge_eras has for chunk keys: None for no key.
SomeKeys(keys) == IF keys = <<>> THEN None ELSE Some(keys)

\* The call of calculate_purge_eras has returned, on a batch size above 0 and
\* a current height not below the activation height.
CalcReturnedInRange ==
    /\ calc_pc = "returned"
    /\ calc_args.batch_size > 0
    /\ calc_args.current_height >= calc_args.activation_height

\* C8 as stated: the result is the keys of the eras offset*b .. min(offset*b+b, n)-1
\* when that range is not empty, and None otherwise.
C8_ChunkByOffset ==
    CalcReturnedInRange =>
        calc_result = SomeKeys(ChunkKeys(calc_args.activation_era_id, calc_args.batch_size,
                                         calc_args.current_height - calc_args.activation_height))

\* C8 amended: so it is when offset*b + b fits a u64; when it does not, the
\* result is None, also when eras from offset*b on are below n.
C8_ChunkByOffsetChecked ==
    CalcReturnedInRange =>
        calc_result = SomeKeys(ChunkKeysChecked(calc_args.activation_era_id, calc_args.batch_size,
                                                calc_args.current_height - calc_args.activation_height))

\* C8 witness: n = 5 in batches of 2, two blocks after the activation height:
\* the last chunk, era 4 alone.
C8_Witness ==
    /\ calc_pc = "returned"
    /\ calc_args.activation_era_id = 5 /\ calc_args.batch_size = 2
    /\ calc_args.current_height = calc_args.activation_height + 2
    /\ calc_result = Some(<<EraInfo(4)>>)

\* C9: the result is None whenever batch_size is 0 and whenever
\* activation_era_id is 0, whatever the other arguments.
C9_NoneOnZeroBatchOrEra ==
    (calc_pc = "returned" /\ (calc_args.batch_size = 0 \/ calc_args.activation_era_id = 0))
        => calc_result = None

\* C9 witness: era id 0 with the other arguments at the largest u64, and a
\* current height at the activation height.
C9_Witness ==
    /\ calc_pc = "returned"
    /\ calc_args.activation_era_id = 0
    /\ calc_args.batch_size = U64_MAX
    /\ calc_args.current_height = U64_MAX /\ calc_args.activation_height = U64_MAX
    /\ calc_result = None

\* C10: the result is None whenever the current height is below the
\* activation height.
C10_NoneBeforeActivation ==
    (calc_pc = "returned" /\ calc_args.current_height < calc_args.activation_height)
        => calc_result = None

\* C10 witness: one block before the activation height, with eras to purge.
C10_Witness ==
    /\ calc_pc = "returned"
    /\ calc_args.current_height + 1 = calc_args.activation_height
    /\ calc_args.activation_era_id > 0 /\ calc_args.batch_size > 0
    /\ calc_result = None

\* C11: no arithmetic of calculate_purge_eras wraps or panics: the result is
\* None whenever offset*batch_size or offset*batch_size + batch_size exceeds
\* the largest u64, and every key returned is for an era id below
\* activation_era_id (and is a u64).
C11_NoneOnOverflowKeysBelowEra ==
    calc_pc = "returned" =>
        LET offset == calc_args.current_height - calc_args.activation_height
            b == calc_args.batch_size
        IN /\ (CalcReturnedInRange /\ (offset * b > U64_MAX \/ offset * b + b > U64_MAX)) => calc_result = None
           /\ calc_result # None =>
                 /\ calc_result[1] # <<>>
                 /\ \A i \in DOMAIN calc_result[1] :
                       /\ calc_result[1][i][1] = "EraInfo"
                       /\ calc_result[1][i][2] \in U64
                       /\ calc_result[1][i][2] < calc_args.activation_era_id

\* C11 witness: the largest activation era id and a product offset*batch_size
\* that fits a u64 while adding batch_size to it does not.
C11_Witness ==
    /\ calc_pc = "returned"
    /\ calc_args.activation_era_id = U64_MAX
    /\ calc_args.current_height > calc_args.activation_height
    /\ (calc_args.current_height - calc_args.activation_height) * calc_args.batch_size <= U64_MAX
    /\ (calc_args.current_height - calc_args.activation_height) * calc_args.batch_size + calc_args.batch_size > U64_MAX
    /\ calc_result = None

\* The root the call's durable write returned, if it was made and succeeded.
WrittenRoot ==
    LET writes == SelectSeq(ops, LAMBDA o : o.op = "write_scratch_to_db" /\ o.ret # None)
    IN IF writes = <<>> THEN None ELSE Some(writes[1].ret[1])

C13_StepIffEraReport ==
    LET has == args.finalized_block.era_report # None
        stepped == SelectSeq(ops, LAMBDA o : o.op = "commit_step" /\ o.ret # None)
    IN /\ (PositionsOf("commit_step") # {} \/ PositionsOf("get_era_validators") # {} \/ step_request # None) => has
       /\ OpsNamed("write_scratch_to_db") # <<>> => Len(stepped) = (IF has THEN 1 ELSE 0)
       /\ OpsNamed("flush_environment") # <<>> =>
             /\ Len(OpsNamed("get_era_validators")) = (IF has THEN 1 ELSE 0)
             /\ maybe_step # None <=> has
       /\ ~has =>
             /\ maybe_step = None
             /\ next_era_validator_weights = None
             /\ ret = "Ok" => block[1].next_era_validator_weights = None

\* C13 witness: a block of deploys without an era report, returned with no
\* step data and no validator weights.
C13_Witness ==
    /\ ret = "Ok"
    /\ args.finalized_block.era_report = None
    /\ execution_results # <<>>
    /\ maybe_step = None
    /\ block[1].next_era_validator_weights = None

\* The step ran and the snapshot queried after it has no entry for the
\* successor of the block's era.
SuccessorEraMissing ==
    /\ maybe_step # None
    /\ (args.finalized_block.era_id + 1) \notin DOMAIN maybe_step[1].upcoming_era_validators

\* C14: when the step ran and the snapshot has no entry for the successor era
\* the call returns no block: it ends in an error (of the flush, of the purge
\* or of the block creation; at height 0 under a purge it ends in the panic of
\* height - 1), and a switch block that is returned carries the snapshot's
\* entry for the successor era as its next-era validator weights.
C14_MissingWeightsIsError ==
    /\ SuccessorEraMissing =>
          /\ ret # "Ok" /\ block = None
          /\ next_era_validator_weights = None
          /\ pc = "returned" =>
                \/ ret = "Err" /\ error \in {"FlushError", "PurgeError", "BlockCreationError"}
                \/ ret = "panic" /\ args.finalized_block.height = 0 /\ PurgeArm
    /\ (ret = "Ok" /\ args.finalized_block.era_report # None) =>
          /\ maybe_step # None
          /\ block[1].next_era_validator_weights # None
          /\ block[1].next_era_validator_weights =
                Some(maybe_step[1].upcoming_era_validators[args.finalized_block.era_id + 1])

\* C14 witness: a switch block whose step ran, refused by Block::new for the
\* missing weights of the successor era.
C14_Witness ==
    /\ SuccessorEraMissing
    /\ ret = "Err" /\ error = "BlockCreationError"
    /\ OpsNamed("commit_step") # <<>>

\* C15: when commit_step fails the call returns StepError at once: the
\* failed commit_step is its last engine call, there is no durable write and
\* no purge, and the store is as before the call, without the effects of the
\* block's deploys (which stay in the scratch state) and without any step
\* effect.
C15_StepFailureWritesNothing ==
    /\ \A i \in PositionsOf("commit_step") :
          ops[i].ret = None =>
             /\ pc = "returned" /\ ret = "Err" /\ error = "StepError"
             /\ i = Len(ops)
             /\ ops[i].on = "scratch"
             /\ OpsNamed("write_scratch_to_db") = <<>>
             /\ OpsNamed("commit_purge") = <<>>
             /\ durable = DurableBefore
             /\ scratch.evicted = None
             /\ block = None
    /\ error = "StepError" =>
          (ops # <<>> /\ ops[Len(ops)].op = "commit_step" /\ ops[Len(ops)].ret = None)

\* C15 witness: the step of a switch block with evictions fails after a
\* failed deploy's effects were committed to the scratch state.
C15_Witness ==
    /\ ret = "Err" /\ error = "StepError"
    /\ execution_results # <<>>
    /\ execution_results[1].result = "Failure"
    /\ scratch.val = Some(2)
    /\ step_request # None
    /\ step_request[1].evict_items # <<>>
    /\ durable = DurableBefore

\* C16: when run_execute returns more than one execution result for a
\* deploy, the call returns MoreThanOneExecutionResult at once: that
\* run_execute is its last engine call, so the deploy's effects are not
\* committed and no later deploy is executed, and the scratch state holds the
\* effects of the deploys before it alone.
C16_MoreThanOneResultFails ==
    \A i \in PositionsOf("run_execute") :
        (ops[i].ret # None /\ ops[i].ret[1].results > 1) =>
            LET executed == Len(OpsNamed("run_execute"))
            IN /\ pc = "returned" /\ ret = "Err" /\ error = "MoreThanOneExecutionResult"
               /\ i = Len(ops)
               /\ Len(OpsNamed("apply_effect")) = executed - 1
               /\ Len(execution_results) = executed - 1
               /\ Len(remaining) = Len(AllDeploys) - (executed - 1)
               /\ scratch.val = (IF executed = 1 THEN None
                                 ELSE Some(args.execution_pre_state.pre_state_root_hash.val + AddedByFirst(executed - 1)))
               /\ durable = DurableBefore

\* C16 witness: the second of three deploys gets two execution results.
C16_Witness ==
    /\ ret = "Err" /\ error = "MoreThanOneExecutionResult"
    /\ ops[Len(ops)].op = "run_execute"
    /\ ops[Len(ops)].ret = Some([results |-> 2])
    /\ Len(execution_results) = 1
    /\ Len(remaining) = 2

\* C17: a deploy whose execution result is a Failure is committed like a
\* successful one: for every result recorded, Failure or Success, there is a
\* commit on the scratch state that moved the working root on by the deploy's
\* effect, and the call leaves the loop only with every deploy of the block
\* executed and recorded.
C17_FailureIsCommitted ==
    LET commits == SelectSeq(ops, LAMBDA o : o.op = "apply_effect" /\ o.ret # None)
    IN /\ Len(commits) = Len(execution_results)
       /\ \A k \in DOMAIN execution_results :
             /\ execution_results[k].id = AllDeploys[k].id
             /\ execution_results[k].result = (IF AllDeploys[k].kind = "fail" THEN "Failure" ELSE "Success")
             /\ commits[k].on = "scratch"
             /\ commits[k].ret[1].val = commits[k].root.val + AddedBy(AllDeploys[k])
             /\ commits[k].ret[1] # commits[k].root
       /\ (pc \notin {"call", "deploys", "returned"} \/ ret = "Ok") =>
             /\ Len(execution_results) = Len(AllDeploys)
             /\ ScratchView(scratch, state_root_hash).val =
                   args.execution_pre_state.pre_state_root_hash.val + AddedByFirst(Len(AllDeploys))

\* C17 witness: a block whose first deploy failed and whose second succeeded
\* is returned, with both effects in its state root.
C17_Witness ==
    /\ ret = "Ok"
    /\ Len(execution_results) = 2
    /\ execution_results[1].result = "Failure"
    /\ execution_results[2].result = "Success"
    /\ execution_results[2].observed = 2
    /\ block[1].state_root_hash.val = 3

\* The k-th transaction submitted: the deploys in their order, then the
\* transfers in theirs.
TransactionAt(k) ==
    IF k <= Len(args.deploys)
    THEN [id |-> <<"deploy", k>>, kind |-> args.deploys[k]]
    ELSE [id |-> <<"transfer", k - Len(args.deploys)>>, kind |-> args.transfers[k - Len(args.deploys)]]

\* What the transactions submitted before the k-th add to the counter.
RECURSIVE AddedBefore(_)
AddedBefore(k) == IF k <= 1 THEN 0 ELSE AddedBefore(k - 1) + (IF TransactionAt(k - 1).kind = "add" THEN 1 ELSE 2)

ExpectedWrittenRoot ==
    LET pre == args.execution_pre_state.pre_state_root_hash
        report == args.finalized_block.era_report
    IN RootOf(pre.val + AddedBefore(Len(args.deploys) + Len(args.transfers) + 1),
              pre.eras,
              IF report = None THEN pre.evicted
              ELSE pre.evicted \cup Range(report[1].inactive_validators) \cup Range(report[1].equivocators))

\* The eras the block purges, from the arguments alone.
ExpectedPurgedEras ==
    IF args.activation_point[1] = "EraId" /\ args.activation_point_block_height # None
    THEN {k[2] : k \in Range(ChunkKeysChecked(args.activation_point[2], args.purge_batch_size,
                                               ((args.finalized_block.height - 1) % (U64_MAX + 1)) - args.activation_point_block_height[1]))}
    ELSE {}

\* The state root of the block, from the arguments alone.
ExpectedStateRoot ==
    IF ExpectedPurgedEras # {} /\ ExpectedPurgedEras \subseteq ExpectedWrittenRoot.eras
    THEN [ExpectedWrittenRoot EXCEPT !.eras = @ \ ExpectedPurgedEras]
    ELSE ExpectedWrittenRoot

\* The execution results returned, from the arguments alone.
ExpectedExecutionResults ==
    [k \in 1..(Len(args.deploys) + Len(args.transfers)) |->
        <<TransactionAt(k).id,
          [result |-> IF TransactionAt(k).kind = "add" THEN "Success" ELSE "Failure",
           observed |-> args.execution_pre_state.pre_state_root_hash.val + AddedBefore(k)]>>]

ExpectedCalls ==
    LET has == args.finalized_block.era_report # None
        executes == [k \in 1..(2 * (Len(args.deploys) + Len(args.transfers))) |->
                        IF k % 2 = 1 THEN <<"run_execute", "scratch">> ELSE <<"apply_effect", "scratch">>]
    IN executes
       \o (IF has THEN <<(<<"commit_step", "scratch">>)>> ELSE <<>>)
       \o <<(<<"write_scratch_to_db", "engine_state">>)>>
       \o (IF has THEN <<(<<"get_era_validators", "engine_state">>)>> ELSE <<>>)
       \o <<(<<"flush_environment", "engine_state">>)>>
       \o (IF ExpectedPurgedEras # {} THEN <<(<<"commit_purge", "engine_state">>)>> ELSE <<>>)

\* The errors the call can return after its last engine call.
ErrorsAfter(calls) ==
    IF calls = <<>> THEN {"WrongBlockHeight"}
    ELSE LET last == calls[Len(calls)]
         IN CASE last.op = "run_execute" -> {IF last.ret = None THEN "ExecuteError" ELSE "MoreThanOneExecutionResult"}
              [] last.op = "apply_effect" -> {"CommitError"}
              [] last.op = "commit_step" -> {"StepError"}
              [] last.op = "write_scratch_to_db" -> {"WriteScratchError"}
              [] last.op = "get_era_validators" -> {"GetEraValidatorsError"}
              [] last.op = "flush_environment" -> {"FlushError", "BlockCreationError"}
              [] last.op = "commit_purge" -> {IF last.ret = None THEN "PurgeError" ELSE "BlockCreationError"}

\* C20: with a metrics sink and without one, the engine calls of a run are
\* the first calls of one sequence fixed by the other arguments, all of it
\* when a block is returned; the block's root and the results returned are
\* fixed by the other arguments, an error is the one of the engine call that
\* failed, and without a sink nothing is observed.
C20_MetricsChangeNothing ==
    LET calls == [i \in DOMAIN ops |-> <<ops[i].op, ops[i].on>>]
    IN /\ Len(calls) <= Len(ExpectedCalls)
       /\ calls = SubSeq(ExpectedCalls, 1, Len(calls))
       /\ ret = "Ok" =>
             /\ calls = ExpectedCalls
             /\ block[1].state_root_hash = ExpectedStateRoot
             /\ effects[1].execution_results = ExpectedExecutionResults
       /\ ret = "Err" => error \in ErrorsAfter(ops)
       /\ args.metrics = None => observations = <<>>
       /\ args.metrics # None => Len(observations) >= Len(SelectSeq(ops, LAMBDA o : o.on = "scratch"))

\* C20 witness: a switch block of three transactions executed without a
\* metrics sink, all its engine calls made and nothing observed.
C20_Witness ==
    /\ ret = "Ok"
    /\ args.metrics = None
    /\ Len(effects[1].execution_results) = 3
    /\ args.finalized_block.era_report # None
    /\ [i \in DOMAIN ops |-> <<ops[i].op, ops[i].on>>] = ExpectedCalls
    /\ OpsNamed("commit_purge") # <<>>
    /\ observations = <<>>

\* C21: every StepRequest handed to the engine has an empty slash list, and
\* in the state of every switch block each validator's staked amount is at
\* least its initial stake.
C21_NoSlashingStakeKept ==
    /\ \A i \in DOMAIN step_requests : step_requests[i].slash_items = <<>>
    /\ \A i \in DOMAIN switch_blocks : \A v \in Validators :
          switch_blocks[i].state.bids[v].staked_amount >= InitialStakes[v]
    /\ \A v \in Validators : bids[v].staked_amount >= InitialStakes[v]

\* C21 witness: alice was reported as an equivocator by the first switch
\* block, two more eras have ended, and her stake is not below her initial one.
C21_Witness ==
    /\ Len(switch_blocks) = 3
    /\ switch_blocks[1].era_report.equivocators = <<"alice">>
    /\ step_requests[1].evict_items = <<"alice">>
    /\ step_requests[1].slash_items = <<>>
    /\ bids["alice"].inactive
    /\ bids["alice"].staked_amount >= AliceStake

\* C22: a block of n transactions that each add 1 to the counter key,
\* executed on a pre-state root where the key has the value v, is returned
\* with a state root where the key has the value v + n, and that root is in
\* the durable store.
C22_AddsAccumulate ==
    (ret = "Ok" /\ \A k \in 1..(Len(args.deploys) + Len(args.transfers)) : TransactionAt(k).kind = "add") =>
        /\ block[1].state_root_hash.val =
              args.execution_pre_state.pre_state_root_hash.val + Len(args.deploys) + Len(args.transfers)
        /\ block[1].state_root_hash \in durable

\* C22 witness: three deploys that each add 1, on a counter at 0, give 3.
C22_Witness ==
    /\ ret = "Ok"
    /\ args.deploys = <<"add", "add", "add">> /\ args.transfers = <<>>
    /\ args.execution_pre_state.pre_state_root_hash.val = 0
    /\ block[1].state_root_hash.val = 3
    /\ block[1].state_root_hash \in durable

\* The mints dispatched before the i-th call, as purse |-> balance.
MintedBefore(i) ==
    LET mints == {j \in 1..(i - 1) : dispatch_log[j].call.func = "mint"}
    IN [u \in {dispatch_log[j].ret.uref[1] : j \in mints} |->
           dispatch_log[CHOOSE j \in mints : dispatch_log[j].ret.uref = Some(u)].call.initial_balance[1]]

\* C23: a total_balance call dispatched on a tracking copy returns the
\* balance an earlier call minted into that purse on the same tracking copy
\* (written in a fork that was merged back), and an error for a purse no
\* call has minted; until the effects are committed the store holds the
\* root alone, whose trie shows none of the purses; the commit adds a root
\* that shows every minted purse with its balance and leaves the first root
\* as it was.
C23_ReadYourWritesNotTheStore ==
    /\ \A i \in DOMAIN dispatch_log :
          dispatch_log[i].call.func = "total_balance" =>
              LET purse == dispatch_log[i].call.uref[1]
              IN dispatch_log[i].ret = (IF purse \in DOMAIN MintedBefore(i)
                                        THEN DispatchOk(None, Some(MintedBefore(i)[purse]))
                                        ELSE DispatchErr)
    /\ tracking_copy # None =>
          /\ EmptyRoot \in DOMAIN tries /\ tries[EmptyRoot] = EmptyRoot
          /\ post_root_hash = None => DOMAIN tries = {EmptyRoot}
          /\ post_root_hash # None =>
                /\ post_root_hash[1] \in DOMAIN tries
                /\ \A u \in StoreKeys :
                      tries[post_root_hash[1]][u] =
                          (IF u \in DOMAIN MintedBefore(Len(dispatch_log) + 1)
                           THEN Some(MintedBefore(Len(dispatch_log) + 1)[u]) ELSE None)

\* C23 witness: a purse is minted with balance 2, the next call reads 2 from
\* it, and the store still holds the root alone, without the purse.
C23_Witness ==
    /\ Len(dispatch_log) = 2
    /\ dispatch_log[1].call.func = "mint" /\ dispatch_log[1].call.initial_balance = Some(2)
    /\ dispatch_log[1].ret = DispatchOk(Some("a"), None)
    /\ dispatch_log[2].call.func = "total_balance" /\ dispatch_log[2].call.uref = Some("a")
    /\ dispatch_log[2].ret = DispatchOk(None, Some(2))
    /\ post_root_hash = None
    /\ DOMAIN tries = {EmptyRoot} /\ tries[EmptyRoot]["a"] = None

\* C24: a checkout of a root the store does not hold answers None, never a
\* reader; tracking_copy answers Ok(None) exactly when the checkout under it
\* answers None, Ok(Some(tracking copy on that reader, nothing pending))
\* exactly when it answers a reader, and Err exactly when it fails.
C24_UnknownRootIsNone ==
    last_checkout # None =>
        LET c == last_checkout[1]
        IN /\ ~c.known => c.checked_out.tag \in {"None", "Err"} /\ c.ret.tracking_copy = None
           /\ c.known => c.checked_out.tag \in {"Reader", "Err"}
           /\ c.ret.tag = "None" <=> c.checked_out.tag = "None"
           /\ c.ret.tag = "Err" <=> c.checked_out.tag = "Err"
           /\ c.ret.tag = "Some" <=> c.checked_out.tag = "Reader"
           /\ c.ret.tag = "Some" => c.ret.tracking_copy = Some([reader |-> c.checked_out.state_hash, effects |-> NoEffects])
           /\ c.ret.tag # "Some" => c.ret.tracking_copy = None

\* C24 witness: after a commit, tracking_copy of a root the store does not
\* hold returned Ok(None).
C24_Witness ==
    /\ last_checkout # None
    /\ ~last_checkout[1].known
    /\ last_checkout[1].checked_out.state_hash \notin DOMAIN tries
    /\ last_checkout[1].ret = [tag |-> "None", tracking_copy |-> None]
    /\ Cardinality(DOMAIN tries) > 1

\* C25: after a commit of an effect set on a root the store holds, the trie
\* under the root returned has, for every key, what the effect set says: the
\* written value for a write, nothing for a prune, the sum for an add, and
\* what the pre-state root has for a key left alone; the commit of the
\* effect set without transforms returns the root it was made on.
C25_CommitThenRead ==
    \A i \in DOMAIN commit_log :
        LET c == commit_log[i]
        IN c.ret.tag = "Ok" =>
              /\ c.ret.root[1] \in DOMAIN tries
              /\ c.state_hash \in DOMAIN tries
              /\ \A k \in StoreKeys :
                    LET read == tries[c.ret.root[1]][k]
                        before == tries[c.state_hash][k]
                    IN /\ c.effects[k].kind = "Write" => read = Some(c.effects[k].value)
                       /\ c.effects[k].kind = "Prune" => read = None
                       /\ c.effects[k].kind = "Add" => before # None /\ read = Some(before[1] + c.effects[k].value)
                       /\ c.effects[k].kind = "Identity" => read = before
              /\ c.effects = NoEffects => c.ret.root[1] = c.state_hash

\* C25 witness: a commit that writes a and prunes b, on a root where b has a
\* value, returned a root where a has the written value and b has none; and
\* the commit without transforms returned the root it was made on.
C25_Witness ==
    /\ Len(commit_log) = 3
    /\ commit_log[1].effects = [a |-> Write(2), b |-> Prune]
    /\ commit_log[1].state_hash = [a |-> None, b |-> Some(1)]
    /\ commit_log[1].ret.root = Some([a |-> Some(2), b |-> None])
    /\ tries[commit_log[1].ret.root[1]] = [a |-> Some(2), b |-> None]
    /\ commit_log[2].effects = NoEffects
    /\ commit_log[2].ret.root = commit_log[1].ret.root

\* C26: when the commit of A and then the commit of B on the root it
\* returned succeed, the single commit of A merged with B on the first root
\* returns the root the commit of B returned; in the merge a write or prune
\* of B stands (the last write wins, a write then a prune is a prune) and two
\* adds are one add of their sum.
C26_SequenceIsMergedCommit ==
    (Len(commit_log) = 3 /\ commit_log[1].ret.tag = "Ok" /\ commit_log[2].ret.tag = "Ok") =>
        /\ commit_log[2].state_hash = commit_log[1].ret.root[1]
        /\ commit_log[3].state_hash = commit_log[1].state_hash
        /\ \A k \in StoreKeys :
              LET a == commit_log[1].effects[k]
                  b == commit_log[2].effects[k]
                  merged == commit_log[3].effects[k]
              IN /\ b.kind \in {"Write", "Prune"} => merged = b
                 /\ a.kind = "Add" /\ b.kind = "Add" => merged = AddUInt(a.value + b.value)
                 /\ b.kind = "Identity" => merged = a
        /\ commit_log[3].ret = commit_log[2].ret

\* C26 witness: A writes a and adds to b, B writes a again, adds to b again
\* and both commits succeed; the merged commit returned the same root, with
\* the second write of a and the sum of the adds to b.
C26_Witness ==
    /\ Len(commit_log) = 3
    /\ commit_log[1].state_hash = [a |-> None, b |-> Some(1)]
    /\ commit_log[1].effects = [a |-> Write(1), b |-> AddUInt(1)]
    /\ commit_log[2].effects = [a |-> Write(2), b |-> AddUInt(1)]
    /\ commit_log[3].effects = [a |-> Write(2), b |-> AddUInt(2)]
    /\ commit_log[2].ret.root = Some([a |-> Some(2), b |-> Some(3)])
    /\ commit_log[3].ret = commit_log[2].ret

\* C27: whatever has been committed, flushed from a scratch state or purged
\* since a reader was checked out, the reader's root is still in the store
\* with the trie it had at the checkout, and the reader's last read returned
\* what its first read returned.
C27_ReadersSeeTheirRoot ==
    \A i \in DOMAIN readers :
        /\ readers[i].state_hash \in DOMAIN tries
        /\ ReaderView(readers[i]) = readers[i].first
        /\ readers[i].last = readers[i].first

\* C27 witness: a reader read again after another root had been committed
\* to the store, and read what it had read at first.
C27_Witness ==
    /\ Len(readers) = 1
    /\ readers[1].roots_at_checkout = 1
    /\ readers[1].roots_at_read = 2
    /\ readers[1].last = readers[1].first
    /\ readers[1].first = [a |-> Some(1), b |-> Some(1)]

\* The root of the request is unknown: the state identifier was not
\* resolved, or the contract runtime answered RootNotFound to a query.
RootUnknown ==
    port_resolution = "unresolved" \/ \E i \in DOMAIN port_answers : port_answers[i] = "RootNotFound"

\* C28: a global state request whose root is unknown is answered with the
\* error code RootNotFound, whatever it asks for.
C28_UnknownRootIsRootNotFound ==
    (port_response # None /\ RootUnknown) => port_response[1] = new_error("RootNotFound")

\* The validators the era report of a switch block lists as faulty.
ListedEquivocator(v, header) == v \in Range(header.era_report.equivocators)

ListedFaulty(v, header) ==
    v \in Range(header.era_report.equivocators) \cup Range(header.era_report.inactive_validators)

InactiveIffEquivocator ==
    \A i \in DOMAIN switch_blocks : \A v \in Validators :
        switch_blocks[i].state.bids[v].inactive <=> \E j \in 1..i : ListedEquivocator(v, switch_blocks[j])

InactiveIffFaulty ==
    \A i \in DOMAIN switch_blocks : \A v \in Validators :
        switch_blocks[i].state.bids[v].inactive <=> \E j \in 1..i : ListedFaulty(v, switch_blocks[j])

\* v was reported in a switch block that is not the last one of the run.
ReportedEquivocator(v) ==
    \E j \in DOMAIN switch_blocks : j < MaxSwitchBlocks /\ ListedEquivocator(v, switch_blocks[j])

ReportedFaulty(v) ==
    \E j \in DOMAIN switch_blocks : j < MaxSwitchBlocks /\ ListedFaulty(v, switch_blocks[j])

\* v is absent from the next-era validator weights of a switch block.
Evicted(v) ==
    \E i \in DOMAIN switch_blocks : v \notin DOMAIN switch_blocks[i].next_era_validator_weights

C30_GetReturnsLastInsert ==
    last_get # None =>
        LET g == last_get[1]
        IN g.ret = IF <<g.name, g.key>> \in DOMAIN inserted THEN Some(inserted[<<g.name, g.key>>]) ELSE None

\* The result of calculate_purge_eras at another current height, the other
\* arguments as in the call.
ResultAt(h) ==
    calculate_purge_eras(calc_args.activation_era_id, calc_args.activation_height, h, calc_args.batch_size)

KeysAt(h) == IF ResultAt(h) = None THEN <<>> ELSE ResultAt(h)[1]

RECURSIVE KeysFromTo(_, _)
\* The keys returned at the heights lo..hi, one height after the other.
KeysFromTo(lo, hi) == IF lo > hi THEN <<>> ELSE KeysFromTo(lo, hi - 1) \o KeysAt(hi)

\* The keys of the eras 0..n-1, ascending.
AllEraKeys(n) == [i \in 1..n |-> EraInfo(i - 1)]

\* The number of chunks of [0, n) in batches of b.
ChunkCount(n, b) == (n + b - 1) \div b

\* The results at the heights from the activation height on are ascending,
\* contiguous from era 0 and disjoint, a result has 1..b keys, and a None is
\* followed by None only.
ChunksInOrder ==
    LET a == calc_args.activation_height
        h == calc_args.current_height
        before == KeysFromTo(a, h - 1)
    IN /\ calc_result = ResultAt(h)
       /\ calc_result # None =>
             /\ Len(calc_result[1]) \in 1..calc_args.batch_size
             /\ calc_result[1] = [i \in 1..Len(calc_result[1]) |-> EraInfo(Len(before) + i - 1)]
       /\ calc_result = None => \A later \in h..U64_MAX : ResultAt(later) = None

\* C31 as stated: the results at the heights a, a+1, ... are disjoint,
\* contiguous and ascending, of 1..b keys each, None for good after the first
\* None, and together (when there are as many heights from a on as chunks)
\* they are exactly the keys of the eras 0..n-1.
C31_ChunksCoverAllEras ==
    CalcReturnedInRange =>
        /\ ChunksInOrder
        /\ calc_args.activation_height + ChunkCount(calc_args.activation_era_id, calc_args.batch_size) <= U64_MAX + 1 =>
              KeysFromTo(calc_args.activation_height, U64_MAX) = AllEraKeys(calc_args.activation_era_id)

\* C31 amended: so they are, and together they are the keys of the eras
\* 0..n-1 when the end of the last chunk fits a u64 and there are as many
\* heights from a on as chunks; otherwise they are the first of these keys.
C31_ChunksCoverErasThatFit ==
    CalcReturnedInRange =>
        LET n == calc_args.activation_era_id
            b == calc_args.batch_size
            a == calc_args.activation_height
            all == KeysFromTo(a, U64_MAX)
        IN /\ ChunksInOrder
           /\ all = SubSeq(AllEraKeys(n), 1, Len(all))
           /\ (ChunkCount(n, b) * b <= U64_MAX /\ a + ChunkCount(n, b) <= U64_MAX + 1) => all = AllEraKeys(n)
           /\ ChunkCount(n, b) * b > U64_MAX => Len(all) < n

\* C31 witness: 6 eras in batches of 3: the second height returns the eras
\* 3, 4, 5 after the first returned 0, 1, 2, and the third returns None.
C31_Witness ==
    /\ calc_pc = "returned"
    /\ calc_args.activation_era_id = 6 /\ calc_args.batch_size = 3
    /\ calc_args.activation_height = 1 /\ calc_args.current_height = 2
    /\ KeysAt(1) = <<EraInfo(0), EraInfo(1), EraInfo(2)>>
    /\ calc_result = Some(<<EraInfo(3), EraInfo(4), EraInfo(5)>>)
    /\ ResultAt(3) = None

\* C32: an execute request that comes back with no execution result fails
\* the call with MoreThanOneExecutionResult: nothing is committed for that
\* deploy, and no later deploy is executed.
C32_NoResultFails ==
    \A i \in PositionsOf("run_execute") :
        (ops[i].ret # None /\ ops[i].ret[1].results = 0) =>
            LET executed == Len(OpsNamed("run_execute"))
            IN /\ pc = "returned" /\ ret = "Err" /\ error = "MoreThanOneExecutionResult"
               /\ i = Len(ops)
               /\ Len(OpsNamed("apply_effect")) = executed - 1
               /\ Len(execution_results) = executed - 1
               /\ Len(remaining) = Len(AllDeploys) - (executed - 1)
               /\ state_root_hash.val = args.execution_pre_state.pre_state_root_hash.val + AddedByFirst(executed - 1)
               /\ durable = DurableBefore

\* C32 witness: the first of two deploys comes back with no execution result.
C32_Witness ==
    /\ ret = "Err" /\ error = "MoreThanOneExecutionResult"
    /\ ops[Len(ops)].op = "run_execute"
    /\ ops[Len(ops)].ret = Some([results |-> 0])
    /\ execution_results = <<>>
    /\ Len(remaining) = 2

\* The answers of the purges the call attempted that succeeded.
PurgesSucceeded ==
    SelectSeq(ops, LAMBDA o : o.op = "commit_purge" /\ o.ret # None /\ o.ret[1].tag = "Success")

\* C33: commit_purge is called only with an era-id activation point, a known
\* activation block height and the keys calculate_purge_eras returned; the
\* block returned has the post-state hash of the purge when one was attempted
\* and succeeded, and the root the durable write returned otherwise.
C33_PurgeGuardedAndRootFollows ==
    /\ \A i \in PositionsOf("commit_purge") :
          /\ args.activation_point[1] = "EraId"
          /\ args.activation_point_block_height # None
          /\ previous_block_height # None
          /\ LET keys == calculate_purge_eras(args.activation_point[2], args.activation_point_block_height[1],
                                              previous_block_height[1], args.purge_batch_size)
             IN keys # None /\ ops[i].root[2] = keys[1]
    /\ Len(OpsNamed("commit_purge")) <= 1
    /\ ret = "Ok" =>
          /\ WrittenRoot # None
          /\ block[1].state_root_hash = IF PurgesSucceeded # <<>> THEN PurgesSucceeded[1].ret[1].post_state_hash
                                        ELSE WrittenRoot[1]

\* C33 witness: a block returned after a purge that succeeded, with another
\* root than the durable write returned.
C33_Witness ==
    /\ ret = "Ok"
    /\ PurgesSucceeded # <<>>
    /\ block[1].state_root_hash = PurgesSucceeded[1].ret[1].post_state_hash
    /\ block[1].state_root_hash # WrittenRoot[1]

\* C34: AcceptConnection and HandleRequest are served in state Initialized
\* only; in Uninitialized and Fatal no event has an effect or changes the
\* state; in Initializing only Initialize is processed, it binds the server
\* and sets the state that results, and every other event is ignored; an
\* Initialize in state Initialized has no effect and leaves the state.
C34_EventsServedByState ==
    last_event # None =>
        LET e == last_event[1]
            ignored == /\ e.effects = <<>>
                       /\ e.state_after = e.state
                       /\ ~e.spawned
        IN /\ (e.event # "Initialize" /\ (e.effects # <<>> \/ e.spawned)) => e.state = "Initialized"
           /\ e.state \in {"Uninitialized", "Fatal"} => ignored
           /\ (e.state = "Initializing" /\ e.event # "Initialize") => ignored
           /\ (e.state = "Initializing" /\ e.event = "Initialize") =>
                 /\ e.state_after = "Initialized"
                 /\ config.enable_server => e.server_after
           /\ (e.state = "Initialized" /\ e.event = "Initialize") => ignored
           /\ (e.state = "Initialized" /\ e.event # "Initialize") => e.effects # <<>>

\* C34 witness: the component, initialized by an Initialize event that
\* started the server, has served a request.
C34_Witness ==
    /\ last_event # None
    /\ last_event[1].event = "HandleRequest"
    /\ last_event[1].state = "Initialized"
    /\ last_event[1].effects = <<"handle_request">>
    /\ server

\* C35: the handle_client tasks running are never more than
\* config.max_connections; a connection accepted with no permit left spawns
\* no handler and its responder is answered all the same; a handler that
\* returns gives its permit back.
C35_ConnectionsLimited ==
    /\ handlers <= config.max_connections
    /\ handlers + connection_limit = config.max_connections
    /\ (last_event # None /\ last_event[1].event = "AcceptConnection" /\ last_event[1].state = "Initialized") =>
          /\ last_event[1].spawned <=> last_event[1].permits > 0
          /\ last_event[1].effects = <<"responder.respond(())">>

\* C35 witness: with every permit taken a connection was dropped, then a
\* handler returned, and the next connection got its permit.
C35_Witness ==
    /\ config.max_connections = 1
    /\ finished = 1
    /\ handlers = 1
    /\ last_event # None
    /\ last_event[1].event = "AcceptConnection"
    /\ last_event[1].spawned
    /\ last_event[1].permits = 1

\* C36: handle_payload checks the header, the rate limiter, the protocol
\* version, the request tag and the body in this order, and the first check
\* that fails alone decides the response: a header error with request id 0,
\* then RequestThrottled, UnsupportedProtocolVersion, UnsupportedRequest and
\* MalformedBinaryRequest with the request's id; a payload that fails a check
\* is not forwarded, and one with an unparsable header uses no quota.
C36_FirstFailingCheckDecides ==
    handled # None =>
        LET h == handled[1]
            p == h.payload
            header_bad == p.short \/ ~p.binary_version_ok \/ ~p.header_ok
            throttled == h.quota = 0
        IN /\ header_bad =>
                 /\ h.response \in {"MalformedBinaryVersion", "MalformedProtocolVersion",
                                    "BinaryProtocolVersionMismatch", "MalformedBinaryRequestHeader"}
                 /\ h.id = 0
                 /\ ~h.throttle_called /\ quota = h.quota
           /\ ~header_bad =>
                 /\ h.id = p.id
                 /\ h.throttle_called
                 /\ quota = IF throttled THEN 0 ELSE h.quota - 1
                 /\ IF throttled THEN h.response = "RequestThrottled"
                    ELSE IF ~p.compatible THEN h.response = "UnsupportedProtocolVersion"
                    ELSE IF ~p.tag_ok THEN h.response = "UnsupportedRequest"
                    ELSE IF ~p.body_ok THEN h.response = "MalformedBinaryRequest"
                    ELSE h.response \in {"none", "ComponentResponse"}
           /\ h.forwarded <=> (~header_bad /\ ~throttled /\ p.compatible /\ p.tag_ok /\ p.body_ok)

\* C36 witness: a payload with a good header that fails every later check,
\* with the rate limiter out of quota: RequestThrottled, with its id.
C36_Witness ==
    /\ handled # None
    /\ extract_header(handled[1].payload) = "Ok"
    /\ ~handled[1].payload.compatible /\ ~handled[1].payload.tag_ok /\ ~handled[1].payload.body_ok
    /\ handled[1].quota = 0
    /\ handled[1].response = "RequestThrottled"
    /\ handled[1].id = handled[1].payload.id
    /\ loop_pc = "send"

\* C37: on a connection the payloads are served one after the other: a
\* payload read is answered by one message with the response, the payload
\* and the request id before the next payload is read; an empty payload ends
\* the loop with NoPayload and no response; the loop ends when the peer
\* closes, on a framing or send error, or when the monitor cancels.
C37_OneResponsePerPayloadInOrder ==
    LET serving == loop_pc \in {"handle_payload", "make_request", "send"}
        send_failed == loop_result = Some("SendError")
    IN /\ sent = IF serving \/ send_failed THEN received - 1 ELSE received
       /\ (sent = received /\ sent > 0) =>
             /\ last_sent # None
             /\ last_sent[1].response = handled[1].response
             /\ last_sent[1].original_request_id = handled[1].id
             /\ last_sent[1].original_request_payload = <<handled[1].payload>>
             /\ payload # EmptyPayload => Some(handled[1].payload) = payload
       /\ serving => (payload # EmptyPayload /\ (loop_pc # "handle_payload" => handled[1].payload = payload[1]))
       /\ loop_result = Some("NoPayload") => (payload = EmptyPayload /\ sent = received)
       /\ loop_pc = "returned" <=> loop_result # None
       /\ loop_result # None => loop_result[1] \in {"Ok", "FramingError", "SendError", "NoPayload"}

\* C37 witness: two payloads were received and answered in turn, the second
\* by a message with the component's response, its payload and its id.
C37_Witness ==
    /\ loop_pc = "select"
    /\ received = 2 /\ sent = 2
    /\ last_sent # None
    /\ last_sent[1].response = "ComponentResponse"
    /\ last_sent[1].original_request_payload = <<payload[1]>>
    /\ last_sent[1].original_request_id = payload[1].id

\* C38: with its config flag false, a TrySpeculativeExec request, an AllItems
\* state request and a Trie request are answered FunctionDisabled, and no
\* request is made of the transaction acceptor, the contract runtime or
\* storage.
C38_DisabledFunctionsAskNothing ==
    (req_pc # "request" /\
     \/ req.kind = "TrySpeculativeExec" /\ ~req.allow_request_speculative_exec
     \/ req.kind = "AllItems" /\ ~req.allow_request_get_all_values
     \/ req.kind = "Trie" /\ ~req.allow_request_get_trie)
        => /\ req_response = Some(new_error("FunctionDisabled"))
           /\ issued = <<>>
           /\ accepted = None

\* C38 witness: a trie request answered FunctionDisabled on a node that
\* allows the other two.
C38_Witness ==
    /\ req_pc = "responded"
    /\ req.kind = "Trie" /\ ~req.allow_request_get_trie
    /\ req.allow_request_speculative_exec /\ req.allow_request_get_all_values
    /\ req_response = Some(new_error("FunctionDisabled"))
    /\ issued = <<>>

\* C39: an enabled TrySpeculativeExec request is executed only after the
\* transaction passed try_accept_transaction; if the acceptor refuses it, its
\* error is the response and no speculative execution is started.
C39_ExecutedOnlyIfAccepted ==
    (req_pc # "unused" /\ req.kind = "TrySpeculativeExec" /\ req.allow_request_speculative_exec) =>
        /\ (\E i \in DOMAIN issued : issued[i] \in {"speculatively_execute", "get_highest_complete_block_header_from_storage"}) =>
              /\ issued[1] = "try_accept_transaction"
              /\ accepted = Some(TRUE)
        /\ accepted = Some(FALSE) =>
              /\ req_pc = "responded"
              /\ req_response = Some(new_error("InvalidTransaction"))
              /\ issued = <<"try_accept_transaction">>

\* C39 witness: the transaction was accepted and then executed.
C39_Witness ==
    /\ req.kind = "TrySpeculativeExec"
    /\ accepted = Some(TRUE)
    /\ issued = <<"try_accept_transaction", "get_highest_complete_block_header_from_storage", "speculatively_execute">>
    /\ req_response = Some(from_value)

\* C40: decrease_stake returns Ok(new) and sets the stake to old - amount, or
\* returns an error and leaves the stake: InvalidAmount when the amount is
\* above the stake; for a bid with a vesting schedule DelegatorFundsLocked
\* when the locked amounts are not initialised or the new stake would be
\* below the locked amount; so a vesting bid's stake is never below the
\* locked amount of its last decrease that succeeded.
C40_DecreaseStakeAllOrNothing ==
    /\ last_decrease # None =>
          LET d == last_decrease[1]
              vesting == d.self.vesting_schedule # None
              new == d.self.staked_amount - d.amount
          IN /\ d.tag \in {"Ok", "Err"}
             /\ d.tag = "Ok" => (d.value = new /\ bid = [d.self EXCEPT !.staked_amount = new])
             /\ d.tag = "Err" => bid = d.self
             /\ d.amount > d.self.staked_amount => (d.tag = "Err" /\ d.error = "InvalidAmount")
             /\ (d.amount <= d.self.staked_amount /\ vesting /\ d.locked = None) =>
                   (d.tag = "Err" /\ d.error = "DelegatorFundsLocked")
             /\ (d.amount <= d.self.staked_amount /\ vesting /\ d.locked # None /\ new < d.locked[1]) =>
                   (d.tag = "Err" /\ d.error = "DelegatorFundsLocked")
             /\ (d.amount <= d.self.staked_amount /\ (~vesting \/ (d.locked # None /\ new >= d.locked[1]))) =>
                   d.tag = "Ok"
    /\ (bid.vesting_schedule # None /\ locked_at_success # None) => bid.staked_amount >= locked_at_success[1]

\* C40 witness: a vesting bid was decreased down to the amount then locked,
\* and a further decrease was refused with the funds locked.
C40_Witness ==
    /\ last_decrease # None
    /\ bid.vesting_schedule # None
    /\ locked_at_success = Some(1)
    /\ bid.staked_amount = 1
    /\ last_decrease[1].tag = "Err" /\ last_decrease[1].error = "DelegatorFundsLocked"
    /\ last_decrease[1].amount = 1
    /\ last_decrease[1].locked = Some(1)

====
